---- MODULE Spec2Model ----
(***************************************************************************)
(* Model of api/parse.py: the itinerary line/row parser, the metadata      *)
(* extractor and the POST handler.                                         *)
(*                                                                         *)
(* A Python str is a sequence of one-character strings; a token list is a  *)
(* sequence of such sequences.  Indices that the code computes (idx,       *)
(* boundary, seg_idx, column offsets) keep their 0-based Python values;    *)
(* element i of a Python list is element i+1 of the sequence.              *)
(***************************************************************************)
EXTENDS Integers, Sequences, FiniteSets, TLC

VARIABLES
    pc,                    \* which call is in progress / has returned
    compose,               \* bookkeeping of the input being composed
    line,                  \* argument of parse_line
    tokens,                \* parse_line: tokens (after the vuelo split)
    boundary,              \* parse_line: boundary
    segments,              \* parse_line: segments
    result,                \* return value of parse_line / parse_table_row
    text,                  \* argument of parse_text / extract_metadata
    flights,               \* return value of parse_text
    day_column_positions,  \* ItineraryParser.day_column_positions
    earlier_positions,     \* day_column_positions before the last parse_text
    row,                   \* argument of parse_table_row
    metadata,              \* return value of extract_metadata
    request,               \* the POST request being handled
    responses              \* the responses do_POST has written

vars == <<pc, compose, line, tokens, boundary, segments, result, text, flights,
          day_column_positions, earlier_positions, row, metadata, request,
          responses>>

lineVars == <<line, tokens, boundary, segments>>
textVars == <<text, flights, day_column_positions, earlier_positions>>
postVars == <<request, responses>>

(***************************************************************************)
(* Characters and strings                                                  *)
(***************************************************************************)
Digit == {"0", "1", "2", "3", "4", "5", "6", "7", "8", "9"}

UpperAZ == {"A", "B", "C", "D", "E", "F", "G", "H", "I", "J", "K", "L", "M",
            "N", "O", "P", "Q", "R", "S", "T", "U", "V", "W", "X", "Y", "Z"}

LowerAZ == {"a", "b", "c", "d", "e", "f", "g", "h", "i", "j", "k", "l", "m",
            "n", "o", "p", "q", "r", "s", "t", "u", "v", "w", "x", "y", "z"}

\* \s
Whitespace == {" ", "\t", "\n", "\r"}

\* \w, as \b uses it
WordChar == Digit \cup UpperAZ \cup LowerAZ \cup {"_"}

\* The absent value of an Optional[Dict].
None == [none |-> TRUE]

Range(s) == {s[i] : i \in 1..Len(s)}

AllIn(s, set) == \A i \in 1..Len(s) : s[i] \in set

\* Python s[a:b] for 0 <= a, b (clamped to the string)
Slice(s, a, b) ==
    LET hi == IF b > Len(s) THEN Len(s) ELSE b
    IN  IF a >= hi THEN <<>> ELSE SubSeq(s, a + 1, hi)

\* the strings a pattern ending in $ may have matched in full: $ matches at
\* the end and just before a final newline
DollarBodies(s) ==
    {s} \cup (IF Len(s) > 0 /\ s[Len(s)] = "\n"
              THEN {SubSeq(s, 1, Len(s) - 1)} ELSE {})

RECURSIVE lstrip(_)
lstrip(s) ==
    IF Len(s) > 0 /\ s[1] \in Whitespace THEN lstrip(Tail(s)) ELSE s

RECURSIVE rstrip(_)
rstrip(s) ==
    IF Len(s) > 0 /\ s[Len(s)] \in Whitespace
    THEN rstrip(SubSeq(s, 1, Len(s) - 1)) ELSE s

\* str.strip()
strip(s) == rstrip(lstrip(s))

DigitValue(c) ==
    CASE c = "0" -> 0 [] c = "1" -> 1 [] c = "2" -> 2 [] c = "3" -> 3
      [] c = "4" -> 4 [] c = "5" -> 5 [] c = "6" -> 6 [] c = "7" -> 7
      [] c = "8" -> 8 [] c = "9" -> 9

RECURSIVE DecimalValue(_)
DecimalValue(s) ==
    IF s = <<>> THEN 0
    ELSE 10 * DecimalValue(SubSeq(s, 1, Len(s) - 1)) + DigitValue(s[Len(s)])

\* int(token), for a token of digits (surrounding whitespace is ignored)
int(token) == DecimalValue(strip(token))

\* str.split(): the maximal runs of non-whitespace characters, in order
RECURSIVE split_from(_, _, _)
split_from(s, i, word) ==
    IF i > Len(s) THEN (IF word = <<>> THEN <<>> ELSE <<word>>)
    ELSE IF s[i] \in Whitespace
         THEN (IF word = <<>> THEN <<>> ELSE <<word>>) \o split_from(s, i + 1, <<>>)
         ELSE split_from(s, i + 1, Append(word, s[i]))

split(s) == split_from(s, 1, <<>>)

\* str.split('\n')
RECURSIVE split_lines_from(_, _)
split_lines_from(s, i) ==
    LET ends == {j \in i..Len(s) : s[j] = "\n"}
    IN  IF ends = {} THEN <<SubSeq(s, i, Len(s))>>
        ELSE LET j == CHOOSE e \in ends : \A f \in ends : e <= f
             IN  <<SubSeq(s, i, j - 1)>> \o split_lines_from(s, j + 1)

split_lines(s) == split_lines_from(s, 1)

\* pattern in s (substring test)
Contains(s, pattern) ==
    \E i \in 0..(Len(s) - Len(pattern)) :
        SubSeq(s, i + 1, i + Len(pattern)) = pattern

\* ' '.join(words)
RECURSIVE JoinWords(_)
JoinWords(words) ==
    IF words = <<>> THEN <<>>
    ELSE IF Len(words) = 1 THEN words[1]
    ELSE words[1] \o <<" ">> \o JoinWords(Tail(words))

(***************************************************************************)
(* Token classifiers                                                       *)
(***************************************************************************)
\* ^[A-Z]{3}$
is_airport(token) ==
    \E b \in DollarBodies(token) : Len(b) = 3 /\ AllIn(b, UpperAZ)

\* ^\d{1,4}$ and int(token) <= 2359
is_time(token) ==
    /\ \E b \in DollarBodies(token) : Len(b) \in 1..4 /\ AllIn(b, Digit)
    /\ int(token) <= 2359

\* ^\d{6}$ and 1 <= int(token[2:4]) <= 12 and 1 <= int(token[4:6]) <= 31
is_date(token) ==
    /\ \E b \in DollarBodies(token) : Len(b) = 6 /\ AllIn(b, Digit)
    /\ LET mm == int(Slice(token, 2, 4))
           dd == int(Slice(token, 4, 6))
       IN  1 <= mm /\ mm <= 12 /\ 1 <= dd /\ dd <= 31

two_digit_codes == {<<"1", "0">>, <<"1", "1">>, <<"1", "2">>, <<"1", "3">>, <<"1", "4">>}

\* ^[0-8]$ or token in ['10', '11', '12', '13', '14']
is_frequency(token) ==
    \/ \E b \in DollarBodies(token) : Len(b) = 1 /\ b[1] \in (Digit \ {"9"})
    \/ token \in two_digit_codes

\* ^(\d{lo,hi})([A-Z]{3})$ : the lengths of group 1 of a match (at most one)
concat_digits(token, lo, hi) ==
    {Len(b) - 3 : b \in {c \in DollarBodies(token) :
        /\ Len(c) - 3 >= lo /\ Len(c) - 3 <= hi
        /\ AllIn(SubSeq(c, 1, Len(c) - 3), Digit)
        /\ AllIn(SubSeq(c, Len(c) - 2, Len(c)), UpperAZ)}}

\* re.match(r'^(\d{1,4})([A-Z]{3})$', token)
is_time_airport(token) == concat_digits(token, 1, 4) # {}

\* re.match(r'^(\d+)([A-Z]{3})$', token)
is_vuelo_airport(token) == concat_digits(token, 1, Len(token)) # {}

(***************************************************************************)
(* ItineraryParser._find_section_boundary                                  *)
(***************************************************************************)
\* the inner while loop counting the dates as well as the frequency codes
RECURSIVE lookahead_token_count(_, _)
lookahead_token_count(toks, lookahead) ==
    IF lookahead < Len(toks)
       /\ (is_frequency(toks[lookahead + 1]) \/ is_date(toks[lookahead + 1]))
    THEN 1 + lookahead_token_count(toks, lookahead + 1)
    ELSE 0

\* the inner while loop: freq_count from position lookahead on
RECURSIVE lookahead_freq_count(_, _)
lookahead_freq_count(toks, lookahead) ==
    IF lookahead < Len(toks)
       /\ (is_frequency(toks[lookahead + 1]) \/ is_date(toks[lookahead + 1]))
    THEN (IF is_frequency(toks[lookahead + 1]) THEN 1 ELSE 0)
         + lookahead_freq_count(toks, lookahead + 1)
    ELSE 0

\* the lookahead threshold of `if freq_count >= 2`
MIN_FREQ_COUNT == 2

\* the number of airports that must have been seen
MIN_AIRPORTS == 2

\* the outer while loop, at index i with airport_count airports seen before i
RECURSIVE boundary_scan(_, _, _, _)
boundary_scan(toks, start_idx, i, airport_count) ==
    IF i >= Len(toks) THEN Len(toks)
    ELSE LET token == toks[i + 1]
             count == IF is_airport(token) \/ is_time_airport(token)
                      THEN airport_count + 1 ELSE airport_count
         IN  IF /\ is_frequency(token) /\ count >= MIN_AIRPORTS
                /\ (i > start_idx =>
                        lookahead_freq_count(toks, i) >= MIN_FREQ_COUNT)
             THEN i
             ELSE IF is_date(token) /\ count >= MIN_AIRPORTS THEN i
             ELSE boundary_scan(toks, start_idx, i + 1, count)

find_section_boundary(toks, start_idx) ==
    boundary_scan(toks, start_idx, start_idx, 0)

(***************************************************************************)
(* ItineraryParser.parse_line                                              *)
(***************************************************************************)
COLUMN_NAMES ==
    <<"status", "vuelo", "origen", "salida1", "escala1", "llegada1",
      "salida2", "escala2", "llegada2", "salida3", "destino", "llegada3",
      "lun", "mar", "mie", "jue", "vie", "sab", "dom",
      "fechaInicio", "fechaFin">>

day_fields == <<"lun", "mar", "mie", "jue", "vie", "sab", "dom">>

\* {col: '' for col in self.COLUMN_NAMES}
empty_record == [col \in Range(COLUMN_NAMES) |-> <<>>]

status_tokens == {<<"A">>, <<"C">>, <<"-">>}

\* the pre-processing loop: a time+airport token becomes two tokens
RECURSIVE expand_tokens(_)
expand_tokens(flight_tokens) ==
    IF flight_tokens = <<>> THEN <<>>
    ELSE LET token == flight_tokens[1]
             n == IF is_time_airport(token)
                  THEN CHOOSE k \in concat_digits(token, 1, 4) : TRUE ELSE 0
         IN  (IF is_time_airport(token) /\ int(SubSeq(token, 1, n)) <= 2359
              THEN <<SubSeq(token, 1, n), SubSeq(token, n + 1, n + 3)>>
              ELSE <<token>>) \o expand_tokens(Tail(flight_tokens))

\* the number of time tokens from seg_idx on (the inner while loop)
RECURSIVE time_run(_, _)
time_run(flight_tokens, seg_idx) ==
    IF seg_idx < Len(flight_tokens) /\ is_time(flight_tokens[seg_idx + 1])
    THEN 1 + time_run(flight_tokens, seg_idx + 1) ELSE 0

\* the segment loop, from seg_idx on
RECURSIVE assemble_segments(_, _)
assemble_segments(flight_tokens, seg_idx) ==
    IF seg_idx >= Len(flight_tokens) THEN <<>>
    ELSE IF is_airport(flight_tokens[seg_idx + 1])
         THEN LET n == time_run(flight_tokens, seg_idx + 1)
              IN  <<[airport |-> flight_tokens[seg_idx + 1],
                     times |-> Slice(flight_tokens, seg_idx + 1, seg_idx + 1 + n)]>>
                  \o assemble_segments(flight_tokens, seg_idx + 1 + n)
         ELSE assemble_segments(flight_tokens, seg_idx + 1)

\* segments[k]['times'][j] if it exists, else the field's previous value
time_of(segs, k, j, old) ==
    IF Len(segs) > k /\ Len(segs[k + 1].times) > j
    THEN segs[k + 1].times[j + 1] ELSE old

\* map_segments with the last stop promoted to destino
map_segments_last_is_destino(res, segs) ==
    [res EXCEPT
        !["origen"]   = IF Len(segs) >= 1 THEN segs[1].airport ELSE @,
        !["salida1"]  = time_of(segs, 0, 0, @),
        !["escala1"]  = IF Len(segs) >= 3 THEN segs[2].airport ELSE @,
        !["llegada1"] = time_of(segs, 1, 0, @),
        !["salida2"]  = time_of(segs, 1, 1, @),
        !["escala2"]  = IF Len(segs) >= 4 THEN segs[3].airport ELSE @,
        !["llegada2"] = time_of(segs, 2, 0, @),
        !["salida3"]  = time_of(segs, 2, 1, @),
        !["destino"]  = IF Len(segs) >= 2 THEN segs[Len(segs)].airport ELSE @,
        !["llegada3"] = time_of(segs, 3, 0, @)]

\* the four `if len(segments) >= n` blocks
map_segments(res, segs) ==
    [res EXCEPT
        !["origen"]   = IF Len(segs) >= 1 THEN segs[1].airport ELSE @,
        !["salida1"]  = time_of(segs, 0, 0, @),
        !["escala1"]  = IF Len(segs) >= 2 THEN segs[2].airport ELSE @,
        !["llegada1"] = time_of(segs, 1, 0, @),
        !["salida2"]  = time_of(segs, 1, 1, @),
        !["escala2"]  = IF Len(segs) >= 3 THEN segs[3].airport ELSE @,
        !["llegada2"] = time_of(segs, 2, 0, @),
        !["salida3"]  = time_of(segs, 2, 1, @),
        !["destino"]  = IF Len(segs) >= 4 THEN segs[4].airport ELSE @,
        !["llegada3"] = time_of(segs, 3, 0, @)]

\* the single-segment fix: the first airport among the tokens from the
\* boundary on becomes escala1, the time token before it llegada1
rescue_single_segment(res, segs, remaining_tokens) ==
    LET hits == {i \in 0..(Len(remaining_tokens) - 1) :
                    is_airport(remaining_tokens[i + 1])}
    IN  IF Len(segs) = 1 /\ res["origen"] # <<>> /\ hits # {}
        THEN LET i == CHOOSE h \in hits : \A g \in hits : h <= g
             IN  [res EXCEPT
                    !["escala1"] = remaining_tokens[i + 1],
                    !["llegada1"] =
                        IF i > 0 /\ is_time(remaining_tokens[i])
                        THEN remaining_tokens[i] ELSE @]
        ELSE res

\* the elements of seq that satisfy the classifier, in order
RECURSIVE select_dates(_)
select_dates(toks) ==
    IF toks = <<>> THEN <<>>
    ELSE (IF is_date(toks[1]) THEN <<toks[1]>> ELSE <<>>) \o select_dates(Tail(toks))

RECURSIVE select_frequencies(_)
select_frequencies(toks) ==
    IF toks = <<>> THEN <<>>
    ELSE (IF is_frequency(toks[1]) THEN <<toks[1]>> ELSE <<>>)
         \o select_frequencies(Tail(toks))

\* width of the day block
DAY_COUNT == 7

\* day_tokens: the 7 tokens before the first date, or the last 7 tokens
day_tokens_of(remaining_tokens) ==
    LET date_indices == {i \in 0..(Len(remaining_tokens) - 1) :
                            is_date(remaining_tokens[i + 1])}
    IN  IF date_indices # {}
        THEN LET first_date_idx ==
                     CHOOSE d \in date_indices : \A e \in date_indices : d <= e
                 day_tokens_start ==
                     IF first_date_idx - DAY_COUNT > 0
                     THEN first_date_idx - DAY_COUNT ELSE 0
             IN  Slice(remaining_tokens, day_tokens_start, first_date_idx)
        ELSE IF Len(remaining_tokens) >= DAY_COUNT
             THEN Slice(remaining_tokens, Len(remaining_tokens) - DAY_COUNT,
                        Len(remaining_tokens))
             ELSE remaining_tokens

\* day_slot with seven codes stored right-to-left
day_slot_reversed(n, i) ==
    IF n = DAY_COUNT THEN (DAY_COUNT - 1) - i ELSE (DAY_COUNT - n) + i

\* day_slot without the right-alignment of short code lists
day_slot_left_aligned(n, i) == i

\* the slot (0-based) of the i-th valid day code (0-based) among n codes
day_slot(n, i) == IF n = DAY_COUNT THEN i ELSE (DAY_COUNT - n) + i

\* both branches of the assignment of valid_day_codes to the weekday fields
assign_days(res, valid_day_codes) ==
    LET n == Len(valid_day_codes)
    IN  [col \in DOMAIN res |->
            IF \E i \in 0..(n - 1) :
                  /\ day_slot(n, i) >= 0 /\ day_slot(n, i) < DAY_COUNT
                  /\ day_fields[day_slot(n, i) + 1] = col
                  /\ valid_day_codes[i + 1] \notin {<<>>, <<"-">>}
            THEN LET i == CHOOSE j \in 0..(n - 1) :
                              day_fields[day_slot(n, j) + 1] = col
                 IN  valid_day_codes[i + 1]
            ELSE res[col]]

assign_dates(res, dates) ==
    [res EXCEPT
        !["fechaInicio"] = IF Len(dates) >= 1 THEN dates[1] ELSE @,
        !["fechaFin"]    = IF Len(dates) >= 2 THEN dates[2] ELSE @]

\* minimum number of tokens of a line
MIN_TOKENS == 4

\* the local variables of parse_line when it returns; ok = FALSE stands for
\* `return None`
parse_line_locals(ln) ==
    LET tokens0 == split(ln)
        none == [ok |-> FALSE, tokens |-> tokens0, boundary |-> 0,
                 segments |-> <<>>, result |-> None]
    IN  IF Len(tokens0) < MIN_TOKENS THEN none
        ELSE
        LET has_status == tokens0[1] \in status_tokens
            status == IF tokens0[1] \in {<<"A">>, <<"C">>} THEN tokens0[1] ELSE <<>>
            idx0 == IF has_status THEN 1 ELSE 0
            token == tokens0[idx0 + 1]
        IN  IF ~(AllIn(token, Digit) /\ Len(token) > 0) /\ ~is_vuelo_airport(token)
            THEN none
            ELSE
            LET glued == ~(AllIn(token, Digit) /\ Len(token) > 0)
                nd == IF glued
                      THEN CHOOSE k \in concat_digits(token, 1, Len(token)) : TRUE
                      ELSE Len(token)
                vuelo == SubSeq(token, 1, nd)
                toks == IF glued
                        THEN Slice(tokens0, 0, idx0)
                             \o <<vuelo, SubSeq(token, nd + 1, nd + 3)>>
                             \o Slice(tokens0, idx0 + 1, Len(tokens0))
                        ELSE tokens0
                idx == idx0 + 1
            IN  IF idx >= Len(toks) THEN [none EXCEPT !.tokens = toks]
                ELSE
                LET bnd == find_section_boundary(toks, idx)
                    flight_tokens == expand_tokens(Slice(toks, idx, bnd))
                    segs == assemble_segments(flight_tokens, 0)
                    remaining_tokens == Slice(toks, bnd, Len(toks))
                    r1 == [empty_record EXCEPT !["status"] = status,
                                               !["vuelo"] = vuelo]
                    r2 == map_segments(r1, segs)
                    r3 == rescue_single_segment(r2, segs, remaining_tokens)
                    r4 == assign_days(r3,
                              select_frequencies(day_tokens_of(remaining_tokens)))
                    r5 == assign_dates(r4, select_dates(remaining_tokens))
                IN  [ok |-> TRUE, tokens |-> toks, boundary |-> bnd,
                     segments |-> segs, result |-> r5]

parse_line(ln) == parse_line_locals(ln).result

(***************************************************************************)
(* Inputs of parse_line                                                    *)
(***************************************************************************)
MEX == <<"M", "E", "X">>
JFK == <<"J", "F", "K">>
MAD == <<"M", "A", "D">>
LAX == <<"L", "A", "X">>
DATE1 == <<"0", "1", "0", "1", "2", "6">>
DATE2 == <<"1", "5", "0", "2", "2", "6">>

Heads ==
    { << <<"A">>, <<"1", "2">>, MEX, <<"1", "0", "3", "0">>, JFK, <<"1", "5", "3", "0">> >>,
      << <<"1">>, MEX, <<"1", "0">>, JFK >>,
      << <<"1">> \o MEX, <<"1", "0">> \o JFK >>,
      << <<"1", "2">>, MEX, <<"1", "0">>, <<"2", "4", "0", "0">> \o JFK >>,
      << <<"1", "2">>, MEX, JFK, MAD, LAX, <<"5">> >>,
      << <<"C">>, <<"7">>, MEX, <<"5">>, JFK, MAD, <<"2", "0">>, <<"3", "0">> >>,
      << <<"-">>, <<"1", "2">>, MEX >>,
      << <<"X", "1">>, MEX, <<"1", "0">>, JFK >>,
      << <<"C">>, <<"7">> >> }

\* a day block is written as one-digit codes followed by two-digit codes
OneDigitCode == <<"1">>
TwoDigitCode == <<"1", "2">>
TrailTokens == {DATE1, DATE2, <<"3">>, LAX}

MaxDayTokens == 7
MaxTrailTokens == 2

InitCommon ==
    /\ compose = [phase |-> "start", n |-> 0]
    /\ line = <<>>
    /\ tokens = <<>>
    /\ boundary = 0
    /\ segments = <<>>
    /\ result = None
    /\ text = <<>>
    /\ flights = <<>>
    /\ day_column_positions = <<>>
    /\ earlier_positions = <<>>
    /\ row = <<>>
    /\ metadata = None
    /\ request = None
    /\ responses = <<>>

InitLine == pc = "compose" /\ InitCommon

\* the caller writes the leading tokens of a line
PutHead ==
    /\ pc = "compose" /\ compose.phase = "start"
    /\ \E h \in Heads :
        /\ line' = JoinWords(h)
        /\ compose' = [phase |-> "days", n |-> 0]
    /\ UNCHANGED <<pc, tokens, boundary, segments, result, textVars, row,
                   metadata, postVars>>

\* the caller appends one token of the day block
PutDay ==
    /\ pc = "compose" /\ compose.phase \in {"days", "wide"}
    /\ compose.n < MaxDayTokens
    /\ \/ /\ compose.phase = "days"
          /\ line' = line \o <<" ">> \o OneDigitCode
          /\ compose' = [phase |-> "days", n |-> compose.n + 1]
       \/ /\ line' = line \o <<" ">> \o TwoDigitCode
          /\ compose' = [phase |-> "wide", n |-> compose.n + 1]
    /\ UNCHANGED <<pc, tokens, boundary, segments, result, textVars, row,
                   metadata, postVars>>

\* the caller appends one trailing token
PutTrail ==
    /\ pc = "compose" /\ compose.phase \in {"days", "wide", "trail"}
    /\ (compose.phase = "trail" => compose.n < MaxTrailTokens)
    /\ \E t \in TrailTokens :
        /\ line' = line \o <<" ">> \o t
        /\ compose' = [phase |-> "trail",
                       n |-> IF compose.phase = "trail" THEN compose.n + 1 ELSE 1]
    /\ UNCHANGED <<pc, tokens, boundary, segments, result, textVars, row,
                   metadata, postVars>>

\* parser.parse_line(line)
ParseLine ==
    /\ pc = "compose" /\ compose.phase # "start"
    /\ LET loc == parse_line_locals(line)
       IN  /\ tokens' = loc.tokens
           /\ boundary' = loc.boundary
           /\ segments' = loc.segments
           /\ result' = loc.result
    /\ pc' = "returned"
    /\ UNCHANGED <<compose, line, textVars, row, metadata, postVars>>

NextLine == PutHead \/ PutDay \/ PutTrail \/ ParseLine

SpecLine == InitLine /\ [][NextLine]_vars

(***************************************************************************)
(* Properties of parse_line                                                *)
(***************************************************************************)
\* tokens[boundary:] of the call that has returned
RemainingTokens == Slice(tokens, boundary, Len(tokens))

Accepted == pc = "returned" /\ result # None

SevenCodesTwoDates ==
    /\ Accepted
    /\ Len(RemainingTokens) = 9
    /\ \A i \in 1..7 : is_frequency(RemainingTokens[i])
    /\ is_date(RemainingTokens[8]) /\ is_date(RemainingTokens[9])

\* C1: when parse_line accepts a line whose tokens from the boundary on are
\* exactly seven frequency codes followed by two dates, lun..dom hold the
\* seven codes in left-to-right order, fechaInicio the first date and
\* fechaFin the second.
C1_SevenCodesInOrder ==
    SevenCodesTwoDates =>
        /\ \A i \in 1..7 : result[day_fields[i]] = RemainingTokens[i]
        /\ result["fechaInicio"] = RemainingTokens[8]
        /\ result["fechaFin"] = RemainingTokens[9]

C1_Witness ==
    /\ SevenCodesTwoDates
    /\ result["lun"] = OneDigitCode /\ result["dom"] = TwoDigitCode
    /\ result["fechaInicio"] = DATE1 /\ result["fechaFin"] = DATE2

\* the weekday slots hold exactly the codes, right-aligned
RightAligned(codes) ==
    LET k == Len(codes)
    IN  /\ \A i \in 0..(k - 1) : result[day_fields[7 - k + i + 1]] = codes[i + 1]
        /\ \A j \in 1..(7 - k) : result[day_fields[j]] = <<>>

\* C2 as stated: when parse_line accepts a line with k frequency codes
\* (1 <= k <= 6) among the tokens from the boundary on, the i-th of them is
\* in weekday slot 7-k+i and the first 7-k slots are empty.
C2_AllCodesRightAligned ==
    Accepted =>
        LET codes == select_frequencies(RemainingTokens)
        IN  Len(codes) \in 1..6 => RightAligned(codes)

\* C2 amended: the codes that are right-aligned are the k frequency codes
\* (1 <= k <= 6) among the day tokens, which are the at most 7 tokens just
\* before the first date from the boundary on, or the last 7 tokens of the
\* line when it has no date; frequency codes elsewhere are not stored.
C2_WindowCodesRightAligned ==
    Accepted =>
        LET codes == select_frequencies(day_tokens_of(RemainingTokens))
        IN  Len(codes) \in 1..6 => RightAligned(codes)

C2_Witness ==
    /\ Accepted
    /\ Len(select_frequencies(day_tokens_of(RemainingTokens))) = 3
    /\ result["vie"] = OneDigitCode /\ result["dom"] = TwoDigitCode
    /\ result["jue"] = <<>>

\* every token digits+LETTERS(3) written as two tokens
RECURSIVE separated_tokens(_)
separated_tokens(toks) ==
    IF toks = <<>> THEN <<>>
    ELSE (IF is_vuelo_airport(toks[1])
          THEN <<SubSeq(toks[1], 1, Len(toks[1]) - 3),
                 SubSeq(toks[1], Len(toks[1]) - 2, Len(toks[1]))>>
          ELSE <<toks[1]>>) \o separated_tokens(Tail(toks))

\* C3: parse_line returns for a line what it returns for the same line with
\* every glued flight-number+airport and time+airport token written as two
\* tokens separated by a space.
C3_FormatTransparent ==
    pc = "returned" =>
        result = parse_line(JoinWords(separated_tokens(split(line))))

\* C5: destino is set only when at least four segments were recovered, and is
\* then the airport of segment 3; with fewer segments the later stops are in
\* escala1 (segment 1) and escala2 (segment 2) and destino is empty, also
\* when the single-segment fix filled escala1.
C5_DestinoNeedsFourSegments ==
    Accepted =>
        /\ result["destino"] # <<>> => Len(segments) >= 4
        /\ Len(segments) >= 4 => result["destino"] = segments[4].airport
        /\ Len(segments) >= 2 => result["escala1"] = segments[2].airport
        /\ Len(segments) >= 3 => result["escala2"] = segments[3].airport
        /\ Len(segments) < 3 => result["escala2"] = <<>>
        /\ Len(segments) < 4 => result["destino"] = <<>>
        /\ Len(segments) = 0 => result["escala1"] = <<>>

C5_Witness ==
    /\ Accepted /\ Len(segments) >= 4
    /\ result["destino"] = LAX /\ result["escala2"] = MAD

\* the single-segment fix has filled escala1
C5_RescueReached ==
    Accepted /\ Len(segments) = 1 /\ result["escala1"] = LAX

(***************************************************************************)
(* ItineraryParser._calibrate_day_columns                                  *)
(***************************************************************************)
day_letters == <<"L", "M", "M", "J", "V", "S", "D">>

\* the first index >= i (1-based) whose character is not in set
RECURSIVE skip_while(_, _, _)
skip_while(s, i, set) ==
    IF i <= Len(s) /\ s[i] \in set THEN skip_while(s, i + 1, set) ELSE i

\* \s+ then letters[k], for k, k+1, ..: the index after the last letter, or 0
RECURSIVE match_spaced_letters(_, _, _, _)
match_spaced_letters(s, i, letters, k) ==
    IF k > Len(letters) THEN i
    ELSE LET j == skip_while(s, i, Whitespace)
         IN  IF j > i /\ j <= Len(s) /\ s[j] = letters[k]
             THEN match_spaced_letters(s, j + 1, letters, k + 1)
             ELSE 0

\* header_search without the word boundaries
header_search_no_boundary(ln) ==
    \E p \in 1..Len(ln) :
        /\ ln[p] = day_letters[1]
        /\ match_spaced_letters(ln, p + 1, day_letters, 2) # 0

\* re.search(r'\bL\s+M\s+M\s+J\s+V\s+S\s+D\b', line)
header_search(ln) ==
    \E p \in 1..Len(ln) :
        /\ ln[p] = day_letters[1]
        /\ (p = 1 \/ ln[p - 1] \notin WordChar)
        /\ LET e == match_spaced_letters(ln, p + 1, day_letters, 2)
           IN  e # 0 /\ (e > Len(ln) \/ ln[e] \notin WordChar)

\* line.find(day, idx): 0-based offset, or -1
find(ln, day, idx) ==
    LET hits == {q \in idx..(Len(ln) - 1) : ln[q + 1] = day}
    IN  IF hits = {} THEN -1 ELSE CHOOSE q \in hits : \A r \in hits : q <= r

\* the loop over day_letters, from letter k on
RECURSIVE find_positions(_, _, _)
find_positions(ln, k, idx) ==
    IF k > Len(day_letters) THEN <<>>
    ELSE LET pos == find(ln, day_letters[k], idx)
         IN  <<pos>> \o find_positions(ln, k + 1, IF pos # -1 THEN pos + 1 ELSE idx)

\* the absent value of day_column_positions
NoPositions == <<>>

\* calibrate_day_columns without the final reset
RECURSIVE calibrate_keeping_old(_, _)
calibrate_keeping_old(lines, old) ==
    IF lines = <<>> THEN old
    ELSE LET positions == find_positions(lines[1], 1, 0)
         IN  IF /\ header_search(lines[1])
                /\ Len(positions) = 7 /\ \A i \in 1..7 : positions[i] >= 0
             THEN positions
             ELSE calibrate_keeping_old(Tail(lines), old)

\* the value of day_column_positions after _calibrate_day_columns(lines),
\* old being its value before
RECURSIVE calibrate_day_columns(_, _)
calibrate_day_columns(lines, old) ==
    IF lines = <<>> THEN NoPositions
    ELSE LET positions == find_positions(lines[1], 1, 0)
         IN  IF /\ header_search(lines[1])
                /\ Len(positions) = 7 /\ \A i \in 1..7 : positions[i] >= 0
             THEN positions
             ELSE calibrate_day_columns(Tail(lines), old)

(***************************************************************************)
(* ItineraryParser.parse_text                                              *)
(***************************************************************************)
\* the characters o-acute and O-acute
oAcute == "o'"
OAcute == "O'"

skip_patterns ==
    << <<"S", " ", "V", "L", "O">>,
       <<"E", "F", "E", "C", "T", "I", "V", "I", "D", "A", "D">>,
       <<"I", "T", "I", "N", "E", "R", "A", "R", "I", "O", "S">>,
       <<"E", "m", "i", "s", "i", oAcute, "n">>,
       <<"E", "M", "I", "S", "I", OAcute, "N">>,
       <<"U", "T", "C">>,
       <<"N", "o", "t", "a", "s", ":">>,
       <<"i", "n", "f", "o", "r", "m", "a", "c", "i", oAcute, "n">> >>

\* not line or re.match(r'^[\s\-]+$', line)
is_blank_or_rule(ln) == AllIn(ln, Whitespace \cup {"-"})

\* any(p in line for p in skip_patterns)
has_skip_pattern(ln) ==
    \E k \in 1..Len(skip_patterns) : Contains(ln, skip_patterns[k])

\* re.match(r'^\s*\d{1,3}\s*$', line)
is_page_number(ln) ==
    LET body == strip(ln) IN Len(body) \in 1..3 /\ AllIn(body, Digit)

\* line_shape accepting every line
line_shape_any(ln) == TRUE

\* re.match(r'^\s*[AC\-]?\s*\d+\s*[A-Z]{3}\s+\d+', line)
line_shape(ln) ==
    LET p0 == skip_while(ln, 1, Whitespace)
        p1 == IF p0 <= Len(ln) /\ ln[p0] \in {"A", "C", "-"} THEN p0 + 1 ELSE p0
        p2 == skip_while(ln, p1, Whitespace)
        p3 == skip_while(ln, p2, Digit)
        p4 == skip_while(ln, p3, Whitespace)
        p5 == p4 + 3
        p6 == skip_while(ln, p5, Whitespace)
    IN  /\ p3 > p2
        /\ p5 - 1 <= Len(ln) /\ AllIn(SubSeq(ln, p4, p5 - 1), UpperAZ)
        /\ p6 > p5
        /\ p6 <= Len(ln) /\ ln[p6] \in Digit

\* the body of the for loop: the records one line adds to flights
line_flights(original_line) ==
    LET ln == strip(original_line)
    IN  IF is_blank_or_rule(ln) \/ has_skip_pattern(ln) \/ is_page_number(ln)
        THEN <<>>
        ELSE IF line_shape(ln)
             THEN LET parsed == parse_line(original_line)
                  IN  IF parsed # None /\ parsed["vuelo"] # <<>>
                      THEN <<parsed>> ELSE <<>>
             ELSE <<>>

\* parse_loop leaving the loop at the first line that adds no record
RECURSIVE parse_loop_break(_, _)
parse_loop_break(lines, acc) ==
    IF lines = <<>> \/ line_flights(lines[1]) = <<>> THEN acc
    ELSE parse_loop_break(Tail(lines), acc \o line_flights(lines[1]))

\* the for loop over lines, acc being flights so far
RECURSIVE parse_loop(_, _)
parse_loop(lines, acc) ==
    IF lines = <<>> THEN acc
    ELSE parse_loop(Tail(lines), acc \o line_flights(lines[1]))

\* the list parse_text(text) returns
parse_text(txt) == parse_loop(split_lines(txt), <<>>)

(***************************************************************************)
(* Inputs of parse_text                                                    *)
(***************************************************************************)
HeaderLine == <<"L", " ", "M", " ", "M", " ", "J", " ", "V", " ", "S", " ", "D">>

DocLines ==
    { JoinWords(<< <<"1", "2">>, MEX, <<"1", "0">>, JFK, <<"3">>, <<"4">> >>),
      JoinWords(<< <<"1">>, <<"1", "0">>, <<"2", "0">>, <<"3", "0">> >>),
      <<" ", " ">> \o HeaderLine,
      <<"V", "L", "O", " ">> \o HeaderLine \o <<" ", "F", "I", "N">>,
      <<"X">> \o HeaderLine,
      JoinWords(<< <<"1">>, <<"U", "T", "C">>, <<"1", "0">>, JFK, <<"3">>, <<"4">> >>),
      JoinWords(<< <<"-">>, <<"7">> \o MEX, <<"5">> \o JFK, <<"1">>, <<"2">> >>),
      JoinWords(<< <<"A", "1">>, MEX, <<"1", "0">>, <<"5">> >>),
      <<"1", "2">> }

MaxLines == 3

InitText == pc = "compose" /\ InitCommon

\* the caller appends one line to the document
AddLine ==
    /\ pc = "compose" /\ compose.n < MaxLines
    /\ \E l \in DocLines :
        text' = IF compose.n = 0 THEN l ELSE text \o <<"\n">> \o l
    /\ compose' = [phase |-> "lines", n |-> compose.n + 1]
    /\ UNCHANGED <<pc, lineVars, result, flights, day_column_positions,
                   earlier_positions, row, metadata, postVars>>

\* parser.parse_text(text)
ParseText ==
    /\ pc = "compose"
    /\ day_column_positions' =
           calibrate_day_columns(split_lines(text), day_column_positions)
    /\ earlier_positions' = day_column_positions
    /\ flights' = parse_text(text)
    /\ pc' = "returned"
    /\ UNCHANGED <<compose, text, lineVars, result, row, metadata, postVars>>

\* the caller starts the next document for the same parser
NextDocument ==
    /\ pc = "returned"
    /\ pc' = "compose"
    /\ compose' = [phase |-> "start", n |-> 0]
    /\ text' = <<>>
    /\ flights' = <<>>
    /\ UNCHANGED <<lineVars, result, day_column_positions, earlier_positions,
                   row, metadata, postVars>>

NextText == AddLine \/ ParseText \/ NextDocument

SpecText == InitText /\ [][NextText]_vars

(***************************************************************************)
(* Properties of parse_text                                                *)
(***************************************************************************)
\* C4: every record parse_text returns has a non-empty vuelo and a non-empty
\* origen.
C4_RecordsHaveVueloAndOrigen ==
    pc = "returned" =>
        \A i \in 1..Len(flights) :
            flights[i]["vuelo"] # <<>> /\ flights[i]["origen"] # <<>>

C4_Witness ==
    /\ pc = "returned" /\ Len(flights) = 2
    /\ flights[1]["origen"] = MEX /\ flights[2]["vuelo"] = <<"7">>

\* day_column_positions holds the offsets of L M M J V S D in this line
OffsetsIn(ln) ==
    /\ Len(day_column_positions) = 7
    /\ \A k \in 1..7 :
        /\ day_column_positions[k] >= 0
        /\ day_column_positions[k] < Len(ln)
        /\ ln[day_column_positions[k] + 1] = day_letters[k]
    /\ \A k \in 1..6 : day_column_positions[k] < day_column_positions[k + 1]

\* the calibration of the document just parsed, for a given reading of
\* "the line contains the header"
CalibratedBy(IsHeader(_)) ==
    LET lines == split_lines(text)
    IN  IF \E i \in 1..Len(lines) : IsHeader(lines[i])
        THEN \E i \in 1..Len(lines) : IsHeader(lines[i]) /\ OffsetsIn(lines[i])
        ELSE day_column_positions = NoPositions

\* C7 as stated: after parse_text, day_column_positions is a list of 7
\* non-negative offsets if some line of the document just parsed contains
\* L M M J V S D with whitespace between the letters, and is unset
\* otherwise, whatever it was before.
C7_PositionsOfLastDocument ==
    pc = "returned" => CalibratedBy(header_search_no_boundary)

\* C7 amended: the same, the header being the letters L M M J V S D
\* separated by whitespace and standing as whole words: the L is not directly
\* preceded, and the D not directly followed, by a letter, digit or
\* underscore.
C7_PositionsOfLastWholeWordHeader ==
    pc = "returned" => CalibratedBy(header_search)

\* a document without header has unset the positions of an earlier one
C7_Witness ==
    /\ pc = "returned"
    /\ earlier_positions # NoPositions
    /\ day_column_positions = NoPositions
    /\ Len(flights) = 1

\* C8: the list parse_text returns is the concatenation, in line order, of
\* what each line yields by itself: the record of parse_line if the line
\* passes the filters and parse_line accepts it, and nothing otherwise.
RECURSIVE PerLineRecords(_)
PerLineRecords(lines) ==
    IF lines = <<>> THEN <<>>
    ELSE parse_text(lines[1]) \o PerLineRecords(Tail(lines))

C8_NoCrossLineState ==
    pc = "returned" =>
        LET lines == split_lines(text)
        IN  /\ flights = PerLineRecords(lines)
            /\ \A i \in 1..Len(lines) :
                   parse_text(lines[i]) \in {<<>>, <<parse_line(lines[i])>>}

C8_Witness ==
    /\ pc = "returned" /\ Len(split_lines(text)) = 3
    /\ Len(flights) = 2
    /\ parse_text(split_lines(text)[2]) = <<>>
    /\ flights[1] # flights[2]

(***************************************************************************)
(* parse_table_row                                                         *)
(***************************************************************************)
\* re.match(r'^\d{lo,hi}$', s)
re_digits(s, lo, hi) ==
    \E b \in DollarBodies(s) : Len(b) >= lo /\ Len(b) <= hi /\ AllIn(b, Digit)

\* re.match(r'^[A-Z]{3}$', s)
re_airport(s) == \E b \in DollarBodies(s) : Len(b) = 3 /\ AllIn(b, UpperAZ)

\* minimum number of cells of a row
MIN_CELLS == 10

\* the cells that count as valid codes in the window scan
window_codes ==
    {<<c>> : c \in Digit \ {"9"}} \cup two_digit_codes \cup {<<>>}

\* number of valid cells a window needs
MIN_VALID_CODES == 5

\* cells after the start of the last window scanned: range(len(row) - 8)
SCAN_MARGIN == 8

\* str(cell).strip() if cell else '' ; a None cell is the empty cell
RECURSIVE normalize_row(_)
normalize_row(cells) ==
    IF cells = <<>> THEN <<>>
    ELSE <<strip(cells[1])>> \o normalize_row(Tail(cells))

\* valid_codes of the window row[i:i+7]
window_valid_codes(cells, i) ==
    Cardinality({j \in (i + 1)..(i + DAY_COUNT) :
                    j <= Len(cells) /\ cells[j] \in window_codes})

\* a scan over every window of seven cells of the row
find_day_start_every_window(cells) ==
    LET hits == {i \in 0..(Len(cells) - DAY_COUNT) :
                    window_valid_codes(cells, i) >= MIN_VALID_CODES}
    IN  IF hits = {} THEN -1 ELSE CHOOSE i \in hits : \A j \in hits : i <= j

\* day_start_idx: the first window of the scan with enough valid codes, or -1
find_day_start(cells) ==
    LET hits == {i \in 0..(Len(cells) - SCAN_MARGIN - 1) :
                    window_valid_codes(cells, i) >= MIN_VALID_CODES}
    IN  IF hits = {} THEN -1 ELSE CHOOSE i \in hits : \A j \in hits : i <= j

\* the chain of positional `if seg_idx < len(segments) and re.match(...)`
\* steps: a step stores the cell and advances when the cell has its shape
take_digits(segs, seg_idx) ==
    seg_idx < Len(segs) /\ re_digits(segs[seg_idx + 1], 1, 4)

take_airport(segs, seg_idx) ==
    seg_idx < Len(segs) /\ re_airport(segs[seg_idx + 1])

advance(taken, seg_idx) == IF taken THEN seg_idx + 1 ELSE seg_idx

cell_or(taken, segs, seg_idx, old) == IF taken THEN segs[seg_idx + 1] ELSE old

table_segments(res, segs) ==
    LET t0 == res["origen"] = <<>> /\ take_airport(segs, 0)
        s1 == advance(t0, 0)
        t1 == take_digits(segs, s1)
        s2 == advance(t1, s1)
        t2 == take_airport(segs, s2)
        s3 == advance(t2, s2)
        t3 == take_digits(segs, s3)
        s4 == advance(t3, s3)
        t4 == take_digits(segs, s4)
        s5 == advance(t4, s4)
        t5 == take_airport(segs, s5)
        s6 == advance(t5, s5)
        t6 == take_digits(segs, s6)
    IN  [res EXCEPT
            !["origen"]   = cell_or(t0, segs, 0, @),
            !["salida1"]  = cell_or(t1, segs, s1, @),
            !["escala1"]  = cell_or(t2, segs, s2, @),
            !["llegada1"] = cell_or(t3, segs, s3, @),
            !["salida2"]  = cell_or(t4, segs, s4, @),
            !["escala2"]  = cell_or(t5, segs, s5, @),
            !["llegada2"] = cell_or(t6, segs, s6, @)]

\* the day loop: the seven cells from day_start_idx on
table_days(res, cells, fields, day_start_idx) ==
    [col \in DOMAIN res |->
        IF \E i \in 0..(Len(fields) - 1) :
              /\ fields[i + 1] = col
              /\ day_start_idx + i < Len(cells)
              /\ cells[day_start_idx + i + 1] \notin {<<>>, <<"-", "1">>, <<"-">>}
        THEN LET i == CHOOSE j \in 0..(Len(fields) - 1) : fields[j + 1] = col
             IN  cells[day_start_idx + i + 1]
        ELSE res[col]]

\* the two date cells after the day block
table_dates(res, cells, date_start_idx) ==
    [res EXCEPT
        !["fechaInicio"] =
            IF date_start_idx < Len(cells)
               /\ re_digits(cells[date_start_idx + 1], 6, 6)
            THEN cells[date_start_idx + 1] ELSE @,
        !["fechaFin"] =
            IF date_start_idx + 1 < Len(cells)
               /\ re_digits(cells[date_start_idx + 2], 6, 6)
            THEN cells[date_start_idx + 2] ELSE @]

parse_table_row(raw_row, fields) ==
    IF Len(raw_row) < MIN_CELLS THEN None
    ELSE
    LET cells == normalize_row(raw_row)
        day_start_idx == find_day_start(cells)
    IN  IF day_start_idx = -1 THEN None
        ELSE
        LET flight_data == Slice(cells, 0, day_start_idx)
            has_status == Len(flight_data) > 0
                          /\ flight_data[1] \in status_tokens \cup {<<>>}
            status == IF has_status /\ flight_data[1] \in {<<"A">>, <<"C">>}
                      THEN flight_data[1] ELSE <<>>
            idx0 == IF has_status THEN 1 ELSE 0
            has_vuelo_cell == Len(flight_data) > idx0 /\ flight_data[idx0 + 1] # <<>>
            vuelo_cell == IF has_vuelo_cell THEN flight_data[idx0 + 1] ELSE <<>>
            plain == re_digits(vuelo_cell, 1, Len(vuelo_cell))
            glued == is_vuelo_airport(vuelo_cell)
        IN  IF has_vuelo_cell /\ ~plain /\ ~glued THEN None
            ELSE
            LET nd == IF glued THEN Len(vuelo_cell) - 3 ELSE Len(vuelo_cell)
                origen == IF ~has_vuelo_cell THEN <<>>
                          ELSE IF glued THEN SubSeq(vuelo_cell, nd + 1, nd + 3)
                          ELSE IF Len(flight_data) > idx0 + 1
                               THEN flight_data[idx0 + 2] ELSE <<>>
                idx == IF ~has_vuelo_cell THEN idx0
                       ELSE IF glued THEN idx0 + 1
                       ELSE IF Len(flight_data) > idx0 + 1 THEN idx0 + 2
                       ELSE idx0 + 1
                r1 == [empty_record EXCEPT
                          !["status"] = status,
                          !["vuelo"] = SubSeq(vuelo_cell, 1, nd),
                          !["origen"] = origen]
                r2 == table_segments(r1, Slice(flight_data, idx, Len(flight_data)))
                r3 == table_days(r2, cells, fields, day_start_idx)
                r4 == table_dates(r3, cells, day_start_idx + DAY_COUNT)
            IN  IF r4["vuelo"] # <<>> /\ r4["origen"] # <<>> THEN r4 ELSE None

(***************************************************************************)
(* Inputs of parse_table_row                                               *)
(***************************************************************************)
\* the choices for the k-th flight cell (0-based) of a row
FlightCellChoices ==
    << {<<"A">>},
       {<<"1", "2", "0">>, <<"7">> \o MEX},
       {<<" ">> \o MEX \o <<" ">>},
       {<<"1", "0", "3", "0">>, <<"9", "9", "9", "9">>},
       {JFK},
       {<<"1", "5", "3", "0">>} >>

DayCells == {<<>>, <<"3">>}

\* the choices for the k-th date cell (0-based)
DateCellChoices == << {DATE1}, {DATE2, <<"-">>} >>

MaxDayCells == 7

InitTable == pc = "compose" /\ InitCommon

\* the extractor appends one flight-data cell
PutFlightCell ==
    /\ pc = "compose" /\ compose.phase \in {"start", "flight"}
    /\ Len(row) < Len(FlightCellChoices)
    /\ \E c \in FlightCellChoices[Len(row) + 1] : row' = Append(row, c)
    /\ compose' = [phase |-> "flight", n |-> 0]
    /\ UNCHANGED <<pc, lineVars, result, textVars, metadata, postVars>>

\* the extractor appends one cell of the day block
PutDayCell ==
    /\ pc = "compose" /\ compose.phase \in {"flight", "days"}
    /\ (compose.phase = "days" => compose.n < MaxDayCells)
    /\ \E c \in DayCells : row' = Append(row, c)
    /\ compose' = [phase |-> "days",
                   n |-> IF compose.phase = "days" THEN compose.n + 1 ELSE 1]
    /\ UNCHANGED <<pc, lineVars, result, textVars, metadata, postVars>>

\* the extractor appends one date cell
PutDateCell ==
    /\ pc = "compose" /\ compose.phase \in {"days", "dates"}
    /\ (compose.phase = "dates" => compose.n < Len(DateCellChoices))
    /\ LET k == IF compose.phase = "dates" THEN compose.n ELSE 0
       IN  /\ \E c \in DateCellChoices[k + 1] : row' = Append(row, c)
           /\ compose' = [phase |-> "dates", n |-> k + 1]
    /\ UNCHANGED <<pc, lineVars, result, textVars, metadata, postVars>>

\* parse_table_row(row, day_fields)
ParseTableRow ==
    /\ pc = "compose"
    /\ result' = parse_table_row(row, day_fields)
    /\ pc' = "returned"
    /\ UNCHANGED <<compose, row, lineVars, textVars, metadata, postVars>>

NextTable == PutFlightCell \/ PutDayCell \/ PutDateCell \/ ParseTableRow

SpecTable == InitTable /\ [][NextTable]_vars

(***************************************************************************)
(* Properties of parse_table_row                                           *)
(***************************************************************************)
airport_fields == {"origen", "escala1", "escala2", "destino"}

time_fields == {"salida1", "llegada1", "salida2", "llegada2", "salida3", "llegada3"}

\* the non-empty fields of a record satisfy the token classifiers
FieldsClassified(rec) ==
    /\ \A f \in airport_fields : rec[f] # <<>> => is_airport(rec[f])
    /\ \A f \in time_fields : rec[f] # <<>> => is_time(rec[f])
    /\ \A f \in Range(day_fields) : rec[f] # <<>> => is_frequency(rec[f])

\* C6: in every record parse_table_row returns, the non-empty airport fields
\* satisfy is_airport, the non-empty time fields is_time and the non-empty
\* weekday slots is_frequency.
C6_TableFieldsClassified ==
    Accepted => FieldsClassified(result)

\* the same for the records of parse_line (checked under SpecLine)
C6_LineFieldsClassified ==
    Accepted => FieldsClassified(result)

\* the cells of the row as parse_table_row reads them
Cells == normalize_row(row)

\* the cells of a window that count as codes, counted cell by cell
ValidInWindow(i) ==
    Cardinality({k \in 1..DAY_COUNT : Cells[i + k] \in window_codes})

Qualifies(i) == ValidInWindow(i) >= MIN_VALID_CODES

\* the qualifying windows among the start indices 0..last
QualifyingUpTo(last) == {i \in 0..last : Qualifies(i)}

First(S) == CHOOSE i \in S : \A j \in S : i <= j

\* the record's day block and dates are read from the window starting at w
ReadsWindow(w) ==
    /\ \A i \in 1..DAY_COUNT :
          result[day_fields[i]] =
              IF Cells[w + i] \in {<<"-", "1">>, <<"-">>} THEN <<>>
              ELSE Cells[w + i]
    /\ \A k \in 1..2 :
          result[<<"fechaInicio", "fechaFin">>[k]] =
              IF w + DAY_COUNT + k <= Len(Cells)
                 /\ Len(Cells[w + DAY_COUNT + k]) = 6
                 /\ AllIn(Cells[w + DAY_COUNT + k], Digit)
              THEN Cells[w + DAY_COUNT + k] ELSE <<>>

\* the cells before the window w give a flight number and an origin
FlightDataBefore(w) ==
    /\ w >= 3
    /\ Cells[1] \in status_tokens
    /\ Cells[2] # <<>> /\ AllIn(Cells[2], Digit)
    /\ Cells[3] # <<>>

\* the documented layout: status, flight number, origin, departure time,
\* stop airport, arrival time, seven day cells, two six-digit dates
DocumentedLayout ==
    /\ Len(row) = 6 + DAY_COUNT + 2
    /\ Cells[1] \in status_tokens
    /\ Cells[2] # <<>> /\ AllIn(Cells[2], Digit)
    /\ is_airport(Cells[3]) /\ is_airport(Cells[5])
    /\ Len(Cells[4]) = 4 /\ AllIn(Cells[4], Digit)
    /\ Len(Cells[6]) = 4 /\ AllIn(Cells[6], Digit)
    /\ \A k \in 7..13 : Cells[k] \in window_codes
    /\ \A k \in 14..15 : Len(Cells[k]) = 6 /\ AllIn(Cells[k], Digit)

\* C15: for a row in the documented layout parse_table_row returns a record
\* whose lun..dom are the seven day cells in order, whose fechaInicio and
\* fechaFin are the two dates, and whose escala1 and llegada1 are the stop
\* airport and the arrival time.
C15_DocumentedLayoutRead ==
    pc = "returned" /\ DocumentedLayout =>
        /\ result # None
        /\ \A i \in 1..DAY_COUNT : result[day_fields[i]] = Cells[6 + i]
        /\ result["fechaInicio"] = Cells[14]
        /\ result["fechaFin"] = Cells[15]
        /\ result["escala1"] = Cells[5]
        /\ result["llegada1"] = Cells[6]

\* what the code does with such a row: the window of the stop airport, the
\* arrival time and the first five day cells is the first to qualify, so the
\* day block is read two cells early and no date is read
C15_DocumentedLayoutReadEarly ==
    pc = "returned" /\ DocumentedLayout =>
        /\ result # None
        /\ result["lun"] = Cells[5] /\ result["mar"] = Cells[6]
        /\ \A i \in 3..DAY_COUNT : result[day_fields[i]] = Cells[4 + i]
        /\ result["fechaInicio"] = <<>> /\ result["fechaFin"] = <<>>
        /\ result["escala1"] = <<>> /\ result["llegada1"] = <<>>

C15_Documented == pc = "returned" /\ DocumentedLayout

\* C16 as stated: every window of seven consecutive cells (start index
\* 0..len(row)-7) is considered, the first one with at least 5 of its 7
\* cells in {"", "0".."8", "10".."14"} is selected, and no record is
\* returned for lack of a window only when no window qualifies.
C16_EveryWindowConsidered ==
    pc = "returned" =>
        LET q == QualifyingUpTo(Len(row) - DAY_COUNT)
        IN  /\ q = {} => result = None
            /\ q # {} /\ result # None => ReadsWindow(First(q))
            /\ q # {} /\ FlightDataBefore(First(q)) => result # None

\* C16 as the code has it: the windows considered are those that leave two
\* cells after them (start index 0..len(row)-9) in a row of at least 10
\* cells; the first one with at least 5 valid cells is selected, and no
\* record is returned when none of these qualifies.
C16_WindowsBeforeTwoCells ==
    pc = "returned" =>
        LET q == IF Len(row) < MIN_CELLS THEN {}
                 ELSE QualifyingUpTo(Len(row) - DAY_COUNT - 2)
        IN  /\ q = {} => result = None
            /\ q # {} /\ result # None => ReadsWindow(First(q))
            /\ q # {} /\ FlightDataBefore(First(q)) => result # None

\* a record whose window starts after the flight cells, and a row that has
\* a qualifying window only among its last two
C16_Witness ==
    /\ Accepted
    /\ QualifyingUpTo(Len(row) - DAY_COUNT - 2) # {}
    /\ First(QualifyingUpTo(Len(row) - DAY_COUNT - 2)) >= 3
    /\ ~Qualifies(0)

C16_LateWindowOnly ==
    /\ pc = "returned" /\ result = None
    /\ Len(row) >= MIN_CELLS
    /\ QualifyingUpTo(Len(row) - DAY_COUNT - 2) = {}
    /\ QualifyingUpTo(Len(row) - DAY_COUNT) # {}

(***************************************************************************)
(* clean_spaced_numbers and extract_metadata                               *)
(***************************************************************************)
LowerSeq == <<"a", "b", "c", "d", "e", "f", "g", "h", "i", "j", "k", "l", "m",
              "n", "o", "p", "q", "r", "s", "t", "u", "v", "w", "x", "y", "z">>

UpperSeq == <<"A", "B", "C", "D", "E", "F", "G", "H", "I", "J", "K", "L", "M",
              "N", "O", "P", "Q", "R", "S", "T", "U", "V", "W", "X", "Y", "Z">>

\* the position of a letter in the alphabet
LetterIndex(c, alphabet) == CHOOSE k \in 1..Len(alphabet) : alphabet[k] = c

lower_char(c) ==
    IF c \in UpperAZ THEN LowerSeq[LetterIndex(c, UpperSeq)]
    ELSE IF c = OAcute THEN oAcute ELSE c

upper_char(c) ==
    IF c \in LowerAZ THEN UpperSeq[LetterIndex(c, LowerSeq)]
    ELSE IF c = oAcute THEN OAcute ELSE c

\* str.lower(), str.upper()
lower(s) == [i \in 1..Len(s) |-> lower_char(s[i])]
upper(s) == [i \in 1..Len(s) |-> upper_char(s[i])]

\* (\d)\s+(\d) matches at index k
spaced_digits_at(s, k) ==
    LET j == skip_while(s, k + 1, Whitespace)
    IN  s[k] \in Digit /\ j > k + 1 /\ j <= Len(s) /\ s[j] \in Digit

\* re.sub(r'(\d)\s+(\d)', r'\1\2', text), scanning from index i: the matches
\* are found left to right and do not overlap
RECURSIVE clean_from(_, _)
clean_from(s, i) ==
    LET hits == {k \in i..Len(s) : spaced_digits_at(s, k)}
    IN  IF hits = {} THEN SubSeq(s, i, Len(s))
        ELSE LET k == CHOOSE h \in hits : \A g \in hits : h <= g
                 j == skip_while(s, k + 1, Whitespace)
             IN  SubSeq(s, i, k) \o <<s[j]>> \o clean_from(s, j + 1)

clean_spaced_numbers(txt) == clean_from(txt, 1)

Letter == UpperAZ \cup LowerAZ

\* The elements of a pattern. A literal holds, for each of its characters,
\* the lower-case forms it matches, since the footer is matched with
\* re.IGNORECASE; a repetition with hi = 0 has no upper limit.
Lit(sets) == [kind |-> "lit", sets |-> sets]
Spaces == [kind |-> "rep", set |-> Whitespace, lo |-> 1, hi |-> 0]
Rep(set, lo, hi) == [kind |-> "rep", set |-> set, lo |-> lo, hi |-> hi]
Open == [kind |-> "open"]
Close == [kind |-> "close"]

\* Emisi[oó]n\s+(\d{2}/\d{2})\s+Del\s+(\d{1,2})\s+de\s+([a-zA-Z]+)\s+(\d{4})
\*   \s+al\s+(\d{1,2})\s+de\s+([a-zA-Z]+)\s+(\d{4})
footer_pattern ==
    << Lit(<<{"e"}, {"m"}, {"i"}, {"s"}, {"i"}, {"o", oAcute}, {"n"}>>), Spaces,
       Open, Rep(Digit, 2, 2), Lit(<<{"/"}>>), Rep(Digit, 2, 2), Close, Spaces,
       Lit(<<{"d"}, {"e"}, {"l"}>>), Spaces,
       Open, Rep(Digit, 1, 2), Close, Spaces,
       Lit(<<{"d"}, {"e"}>>), Spaces,
       Open, Rep(Letter, 1, 0), Close, Spaces,
       Open, Rep(Digit, 4, 4), Close, Spaces,
       Lit(<<{"a"}, {"l"}>>), Spaces,
       Open, Rep(Digit, 1, 2), Close, Spaces,
       Lit(<<{"d"}, {"e"}>>), Spaces,
       Open, Rep(Letter, 1, 0), Close, Spaces,
       Open, Rep(Digit, 4, 4), Close >>

\* the index after what the element matches at index i (1-based), or 0 when
\* it does not match. A repetition takes all it can: in the footer pattern
\* what follows a repetition never matches a character of the repetition,
\* so giving characters back never helps.
match_element(s, i, el) ==
    IF el.kind = "lit"
    THEN IF i + Len(el.sets) - 1 <= Len(s)
            /\ \A k \in 1..Len(el.sets) : lower_char(s[i + k - 1]) \in el.sets[k]
         THEN i + Len(el.sets) ELSE 0
    ELSE LET run == skip_while(s, i, el.set) - i
             n == IF el.hi # 0 /\ run > el.hi THEN el.hi ELSE run
         IN  IF n >= el.lo THEN i + n ELSE 0

\* the groups of the pattern matched at index i from its k-th element on, or
\* None; start is where the open group began, groups are those closed so far
RECURSIVE match_from(_, _, _, _, _, _)
match_from(s, i, pattern, k, start, groups) ==
    IF k > Len(pattern) THEN groups
    ELSE IF pattern[k].kind = "open"
    THEN match_from(s, i, pattern, k + 1, i, groups)
    ELSE IF pattern[k].kind = "close"
    THEN match_from(s, i, pattern, k + 1, 0,
                    Append(groups, SubSeq(s, start, i - 1)))
    ELSE LET j == match_element(s, i, pattern[k])
         IN  IF j = 0 THEN None
             ELSE match_from(s, j, pattern, k + 1, start, groups)

\* the groups of the footer pattern matched at index p, or None
footer_match_at(s, p) == match_from(s, p, footer_pattern, 1, 0, <<>>)

\* re.search: the match at the leftmost index that has one, or None
footer_search(s) ==
    LET starts == {p \in 1..Len(s) : footer_match_at(s, p) # None}
    IN  IF starts = {} THEN None
        ELSE footer_match_at(s, CHOOSE p \in starts : \A q \in starts : p <= q)

month_names ==
    << <<"e", "n", "e", "r", "o">>, <<"f", "e", "b", "r", "e", "r", "o">>,
       <<"m", "a", "r", "z", "o">>, <<"a", "b", "r", "i", "l">>,
       <<"m", "a", "y", "o">>, <<"j", "u", "n", "i", "o">>,
       <<"j", "u", "l", "i", "o">>, <<"a", "g", "o", "s", "t", "o">>,
       <<"s", "e", "p", "t", "i", "e", "m", "b", "r", "e">>,
       <<"o", "c", "t", "u", "b", "r", "e">>,
       <<"n", "o", "v", "i", "e", "m", "b", "r", "e">>,
       <<"d", "i", "c", "i", "e", "m", "b", "r", "e">> >>

month_abbreviations ==
    << <<"E", "N", "E">>, <<"F", "E", "B">>, <<"M", "A", "R">>, <<"A", "B", "R">>,
       <<"M", "A", "Y">>, <<"J", "U", "N">>, <<"J", "U", "L">>, <<"A", "G", "O">>,
       <<"S", "E", "P">>, <<"O", "C", "T">>, <<"N", "O", "V">>, <<"D", "I", "C">> >>

\* month_map.get(name.lower(), name[:3].upper())
month_map_get(name) ==
    IF \E k \in 1..Len(month_names) : month_names[k] = lower(name)
    THEN month_abbreviations[CHOOSE k \in 1..Len(month_names) :
                                month_names[k] = lower(name)]
    ELSE upper(Slice(name, 0, 3))

\* f"{day}-{month}-{year}"
format_date(day, month, year) == day \o <<"-">> \o month \o <<"-">> \o year

empty_metadata ==
    [codigoEmision |-> <<>>, fechaEmision |-> <<>>,
     vigenciaInicio |-> <<>>, vigenciaFin |-> <<>>]

\* extract_metadata taking the issue date from the end of the validity
extract_metadata_issue_from_end(txt) ==
    LET footer == footer_search(clean_spaced_numbers(txt))
    IN  IF footer = None THEN empty_metadata
        ELSE LET fin == format_date(footer[5], month_map_get(footer[6]), footer[7])
             IN  [codigoEmision |-> footer[1],
                  vigenciaInicio |->
                      format_date(footer[2], month_map_get(footer[3]), footer[4]),
                  vigenciaFin |-> fin,
                  fechaEmision |-> fin]

extract_metadata(txt) ==
    LET footer == footer_search(clean_spaced_numbers(txt))
    IN  IF footer = None THEN empty_metadata
        ELSE LET inicio ==
                     format_date(footer[2], month_map_get(footer[3]), footer[4])
             IN  [codigoEmision |-> footer[1],
                  vigenciaInicio |-> inicio,
                  vigenciaFin |->
                      format_date(footer[5], month_map_get(footer[6]), footer[7]),
                  fechaEmision |-> inicio]

(***************************************************************************)
(* Inputs of extract_metadata                                              *)
(***************************************************************************)
EMISION == <<"E", "m", "i", "s", "i", "o", "n">>
Y2026 == <<"2", "0", "2", "6">>
Y2027 == <<"2", "0", "2", "7">>
DE == <<"d", "e">>
ENE == <<"E", "N", "E">>
FEB == <<"F", "E", "B">>

\* a month as written, with the abbreviation expected for it
MonthsWritten ==
    { [word |-> <<"e", "n", "e", "r", "o">>, abbr |-> ENE],
      [word |-> <<"f", "e", "b", "r", "e", "r", "o">>, abbr |-> FEB],
      [word |-> <<"A", "g", "o", "s", "t", "o">>, abbr |-> <<"A", "G", "O">>],
      [word |-> <<"s", "e", "t", "i", "e", "m", "b", "r", "e">>,
       abbr |-> <<"S", "E", "T">>],
      [word |-> <<"x", "y">>, abbr |-> <<"X", "Y">>] }

\* the words that may be written at each place of the footer, in order:
\* before it, Emision, MM/YY, Del, D, de, month, YYYY, al, D, de, month,
\* YYYY, after it
\* header-style fields, as a document may print them on its first lines
HEADER_CODE == <<"1", "1", "/", "2", "5">>
HEADER_INICIO == <<"0", "1", "-", "D", "I", "C", "-", "2", "0", "2", "5">>
HEADER_FIN == <<"3", "1", "-", "D", "I", "C", "-", "2", "0", "2", "5">>
HEADER_FECHA == <<"2", "0", "-", "N", "O", "V", "-", "2", "0", "2", "5">>

HeaderFields ==
    <<"E", "M", "I", "S", "I", "O", "N", ":", " ">> \o HEADER_CODE
        \o <<"\n", "V", "I", "G", "E", "N", "C", "I", "A", ":", " ">>
        \o HEADER_INICIO \o <<" ", "a", "l", " ">> \o HEADER_FIN
        \o <<"\n", "F", "E", "C", "H", "A", ":", " ">> \o HEADER_FECHA

FooterWords ==
    << {<<>>, <<"P", "a", "g", " ", "7">>, HeaderFields},
       {EMISION, <<"E", "m", "i", "s", "i", oAcute, "n">>},
       {<<"0", "2", "/", "2", "6">>, <<"1", "1", "/", "2", "5">>},
       {<<"D", "e", "l">>},
       {<<"2", "6">>, <<"5">>},
       {DE},
       {m.word : m \in MonthsWritten},
       {Y2026},
       {<<"a", "l">>},
       {<<"2", "2">>},
       {DE},
       {m.word : m \in MonthsWritten},
       {Y2026, Y2027},
       {<<>>, <<"1">>, <<"P", "a", "g">>} >>

Separators == {<<" ">>, <<"\n", " ">>}

InitMeta ==
    /\ pc = "compose" /\ InitCommon

\* the document gets its next word; compose.n words have been written
PutWord ==
    /\ pc = "compose" /\ compose.phase \in {"start", "words"}
    /\ compose.n < Len(FooterWords)
    /\ \E w \in FooterWords[compose.n + 1] :
       \E sep \in (IF compose.n \in {2, 8} THEN Separators ELSE {<<" ">>}) :
        /\ text' = IF w = <<>> THEN text
                   ELSE IF text = <<>> THEN w ELSE text \o sep \o w
        /\ line' = Append(line, w)
    /\ compose' = [phase |-> "words", n |-> compose.n + 1]
    /\ UNCHANGED <<pc, tokens, boundary, segments, result, flights,
                   day_column_positions, earlier_positions, row, metadata,
                   postVars>>

\* extract_metadata(text)
ExtractMetadata ==
    /\ pc = "compose"
    /\ metadata' = extract_metadata(text)
    /\ pc' = "returned"
    /\ UNCHANGED <<compose, lineVars, result, textVars, row, postVars>>

NextMeta == PutWord \/ ExtractMetadata

SpecMeta == InitMeta /\ [][NextMeta]_vars

(***************************************************************************)
(* Properties of extract_metadata                                          *)
(***************************************************************************)
\* the words written so far: line is used as the list of words here
Written == line

FooterWritten == pc = "returned" /\ Len(Written) >= 13

AbbrOf(word) == (CHOOSE m \in MonthsWritten : m.word = word).abbr

\* C10: for a text that contains the footer
\* 'Emision MM/YY Del D de <month> YYYY al D de <month> YYYY',
\* codigoEmision is MM/YY, vigenciaInicio and vigenciaFin are D-ABBR-YYYY
\* with ABBR the abbreviation of the month (its first three letters in
\* upper case when it is no Spanish month), and fechaEmision equals
\* vigenciaInicio.
C10_FooterMetadata ==
    FooterWritten =>
        /\ metadata.codigoEmision = Written[3]
        /\ metadata.vigenciaInicio =
               format_date(Written[5], AbbrOf(Written[7]), Written[8])
        /\ metadata.vigenciaFin =
               format_date(Written[10], AbbrOf(Written[12]), Written[13])
        /\ metadata.fechaEmision = metadata.vigenciaInicio

\* the example of the specification
C10_Witness ==
    /\ FooterWritten
    /\ text = JoinWords(<< EMISION, <<"0", "2", "/", "2", "6">>, <<"D", "e", "l">>,
                           <<"2", "6">>, DE, <<"e", "n", "e", "r", "o">>, Y2026,
                           <<"a", "l">>, <<"2", "2">>, DE,
                           <<"f", "e", "b", "r", "e", "r", "o">>, Y2026 >>)
    /\ metadata = [codigoEmision |-> <<"0", "2", "/", "2", "6">>,
                   vigenciaInicio |-> format_date(<<"2", "6">>, ENE, Y2026),
                   vigenciaFin |-> format_date(<<"2", "2">>, FEB, Y2026),
                   fechaEmision |-> format_date(<<"2", "6">>, ENE, Y2026)]

HeaderWritten == pc = "returned" /\ Len(Written) >= 1 /\ Written[1] = HeaderFields

\* C11: when the first 3000 characters of the text hold the header-style
\* fields 'EMISION: MM/YY', 'VIGENCIA: DD-MMM-YYYY al DD-MMM-YYYY' and
\* 'FECHA: DD-MMM-YYYY', the four metadata fields are taken from them; the
\* footer is used only when the header style yields no issue code.
C11_HeaderStyleFirst ==
    HeaderWritten =>
        /\ metadata.codigoEmision = HEADER_CODE
        /\ metadata.vigenciaInicio = HEADER_INICIO
        /\ metadata.vigenciaFin = HEADER_FIN
        /\ metadata.fechaEmision = HEADER_FECHA

\* what the code does with a text that holds the header-style fields: it
\* reads the footer when there is one, and nothing otherwise
C11_HeaderIgnored ==
    HeaderWritten =>
        IF Len(Written) >= 13
        THEN metadata.codigoEmision = Written[3]
        ELSE metadata = empty_metadata

(***************************************************************************)
(* handler.do_POST                                                         *)
(*                                                                         *)
(* A request body is a record [format, corrupt, payload]: format is how    *)
(* the bytes are packed ("gzip" and "zlib" bodies start with the magic     *)
(* bytes of their format, "deflate" and "plain" bodies do not), corrupt    *)
(* tells that unpacking them fails, and payload is what they unpack to. A  *)
(* payload is a record [kind, ...] of what the external libraries (json,   *)
(* pdfplumber/PyPDF2, zipfile) make of the bytes.                          *)
(***************************************************************************)
\* stand for the characters of codes 92 and 96, which no input holds
Backslash == "backslash"
Backtick == "backtick"

\* the printable ASCII characters, from code 32 on
Printable ==
    << " ", "!", "\"", "#", "$", "%", "&", "'", "(", ")", "*", "+",
       ",", "-", ".", "/", "0", "1", "2", "3", "4", "5", "6", "7",
       "8", "9", ":", ";", "<", "=", ">", "?", "@", "A", "B", "C",
       "D", "E", "F", "G", "H", "I", "J", "K", "L", "M", "N", "O",
       "P", "Q", "R", "S", "T", "U", "V", "W", "X", "Y", "Z", "[",
       Backslash, "]", "^", "_", Backtick, "a", "b", "c", "d", "e", "f", "g",
       "h", "i", "j", "k", "l", "m", "n", "o", "p", "q", "r", "s",
       "t", "u", "v", "w", "x", "y", "z", "{", "|", "}", "~" >>

\* the value of the first byte of the UTF-8 encoding of a character
ord(c) ==
    IF c = "\n" THEN 10
    ELSE IF c = "\t" THEN 9
    ELSE IF c \in {oAcute, OAcute} THEN 195
    ELSE 31 + CHOOSE k \in 1..Len(Printable) : Printable[k] = c

PDF_MAGIC == <<"%", "P", "D", "F">>

\* the first bytes of a body tell what it is: those of a gzip or zlib stream
\* or of a PDF or ZIP file are the magic bytes of the format, those of a text
\* or JSON body are its first characters. A raw deflate stream is taken to
\* start with bytes that are no magic bytes.
is_gzip(data) == data.format = "gzip"

\* (cmf & 0x0F == 8) and (cmf * 256 + flg) % 31 == 0 on the first two bytes
is_zlib(data) ==
    \/ data.format = "zlib"
    \/ /\ data.format = "plain" /\ data.payload.kind \in {"text", "json"}
       /\ Len(data.payload.text) >= 2
       /\ ord(data.payload.text[1]) % 16 = 8
       /\ (ord(data.payload.text[1]) * 256 + ord(data.payload.text[2])) % 31 = 0

\* data[:4] == b'%PDF'
is_pdf(data) ==
    /\ data.format = "plain"
    /\ \/ data.payload.kind = "pdf"
       \/ /\ data.payload.kind \in {"text", "json"}
          /\ Slice(data.payload.text, 0, 4) = PDF_MAGIC

\* data[:4] == b'PK\x03\x04'
is_zip(data) == data.format = "plain" /\ data.payload.kind = "zip"

JsonTypes == {"application/json"}

DeflateTypes == {"application/zlib"}

\* 'application/zlib' in content_type or 'application/deflate' in content_type
is_raw_deflate(content_type) == content_type \in DeflateTypes

raise(e) == [raised |-> TRUE, error |-> e]

\* gzip.decompress, zlib.decompress, zlib.decompress(data, wbits=-15)
decompress(data, format) ==
    IF data.format = format /\ ~data.corrupt
    THEN [raised |-> FALSE,
          value |-> [format |-> "plain", corrupt |-> FALSE,
                     payload |-> data.payload]]
    ELSE raise("Error -3 while decompressing data")

\* json.loads(body.decode('utf-8'))
json_loads(data) ==
    IF data.payload.kind = "json" /\ data.payload.value # None
    THEN [raised |-> FALSE, value |-> data.payload.value]
    ELSE raise("Expecting value: line 1 column 1 (char 0)")

\* data.get('text', '')
json_get_text(data) ==
    IF data.type # "dict"
    THEN raise("object has no attribute 'get'")
    ELSE [raised |-> FALSE,
          value |-> IF data.has_text THEN data.text
                    ELSE [type |-> "str", value |-> <<>>]]

\* the rows of the tables of the document; [] when the extraction fails
extract_tables(pdf_data) ==
    IF pdf_data.payload.kind = "pdf" THEN pdf_data.payload.rows ELSE <<>>

RECURSIVE parse_rows(_)
parse_rows(rows) ==
    IF rows = <<>> THEN <<>>
    ELSE LET parsed == IF rows[1] = <<>> THEN None
                       ELSE parse_table_row(rows[1], day_fields)
         IN  (IF parsed # None THEN <<parsed>> ELSE <<>>)
                 \o parse_rows(Tail(rows))

extract_flights_from_pdf_tables(pdf_data) == parse_rows(extract_tables(pdf_data))

extract_text_from_pdf(pdf_data) ==
    IF pdf_data.payload.kind = "pdf" /\ pdf_data.payload.intact
    THEN [raised |-> FALSE, value |-> pdf_data.payload.text]
    ELSE raise("No PDF library available or PDF extraction failed")

extract_text_from_zip(zip_data) ==
    IF zip_data.payload.intact
    THEN [raised |-> FALSE, value |-> zip_data.payload.text]
    ELSE raise("File is not a zip file")

\* body.decode('utf-8', errors='ignore')
decode(data) ==
    IF data.format = "plain" THEN data.payload.text ELSE <<>>

\* extract_metadata of a value that may be no str (re.sub raises then)
metadata_of(txt) ==
    IF txt.type = "str"
    THEN [raised |-> FALSE, value |-> extract_metadata(txt.value)]
    ELSE raise("expected string or bytes-like object")

\* the 200 response counting the lines of the text as total
success_response_counting_lines(found, source_type, txt, meta) ==
    [status |-> 200, success |-> TRUE, total |-> Len(split_lines(txt)),
     flights |-> found, source |-> source_type, textLength |-> Len(txt),
     metadata |-> meta]

success_response(found, source_type, txt, meta) ==
    [status |-> 200, success |-> TRUE, total |-> Len(found),
     flights |-> found, source |-> source_type, textLength |-> Len(txt),
     metadata |-> meta]

failure_response(e) ==
    [status |-> 500, success |-> FALSE, error |-> e, total |-> 0,
     flights |-> <<>>]

\* the body after the decompression step, with source_type
decompress_step(req) ==
    IF is_gzip(req.body)
    THEN [out |-> decompress(req.body, "gzip"), source_type |-> "gzip+"]
    ELSE IF is_zlib(req.body)
    THEN [out |-> decompress(req.body, "zlib"), source_type |-> "zlib+"]
    ELSE IF is_raw_deflate(req.content_type)
    THEN [out |-> decompress(req.body, "deflate"), source_type |-> "deflate+"]
    ELSE [out |-> [raised |-> FALSE, value |-> req.body],
          source_type |-> "unknown"]

str(chars) == [type |-> "str", value |-> chars]

extracted(txt, source_type, table_flights) ==
    [raised |-> FALSE, text |-> txt, source_type |-> source_type,
     table_flights |-> table_flights]

\* json.loads and data.get('text', '')
extract_json(body) ==
    LET data == json_loads(body)
    IN  IF data.raised THEN data
        ELSE LET txt == json_get_text(data.value)
             IN  IF txt.raised THEN txt ELSE extracted(txt.value, "json", <<>>)

\* what the PDF branch extracts, given the flights of the tables and the text
pdf_extracted(table_flights, txt, compressed_prefix) ==
    IF txt.raised THEN txt
    ELSE IF Len(table_flights) > 0
    THEN extracted(str(txt.value), compressed_prefix \o "pdf-table",
                   table_flights)
    ELSE extracted(str(txt.value), compressed_prefix \o "pdf", <<>>)

\* the text of a PDF, with the flights of its tables when it has some
extract_pdf(body, compressed_prefix) ==
    pdf_extracted(extract_flights_from_pdf_tables(body),
                  extract_text_from_pdf(body), compressed_prefix)

extract_zip(body, compressed_prefix) ==
    LET txt == extract_text_from_zip(body)
    IN  IF txt.raised THEN txt
        ELSE extracted(str(txt.value), compressed_prefix \o "zip", <<>>)

\* "Determine input type and extract text"
extract_step(content_type, body, compressed_prefix) ==
    IF content_type \in JsonTypes /\ compressed_prefix = ""
    THEN extract_json(body)
    ELSE IF is_pdf(body) THEN extract_pdf(body, compressed_prefix)
    ELSE IF is_zip(body) THEN extract_zip(body, compressed_prefix)
    ELSE extracted(str(decode(body)), compressed_prefix \o "text", <<>>)

\* the response once the metadata is extracted: the flights are those of the
\* tables when there are some, else those of parse_text
respond_with(ext, meta) ==
    IF meta.raised THEN <<failure_response(meta.error)>>
    ELSE <<success_response(
               IF Len(ext.table_flights) > 0 THEN ext.table_flights
               ELSE parse_text(ext.text.value),
               ext.source_type, ext.text.value, meta.value)>>

\* metadata, flights and the response
respond(ext) ==
    IF ext.raised THEN <<failure_response(ext.error)>>
    ELSE respond_with(ext, metadata_of(ext.text))

\* do_POST from the extraction on
extract_and_respond(content_type, body, source_type) ==
    IF body.raised THEN <<failure_response(body.error)>>
    ELSE respond(extract_step(content_type, body.value,
                     IF source_type = "unknown" THEN "" ELSE source_type))

\* do_POST from the decompression on
decompress_and_respond(content_type, step) ==
    extract_and_respond(content_type, step.out, step.source_type)

\* the responses written by do_POST for a request
do_POST(req) ==
    IF ~req.content_length_ok
    THEN <<failure_response("invalid literal for int() with base 10")>>
    ELSE decompress_and_respond(req.content_type, decompress_step(req))

(***************************************************************************)
(* Inputs of do_POST                                                       *)
(***************************************************************************)
FlightLine == JoinWords(<< <<"1", "2">>, MEX, <<"1", "0">>, JFK, <<"3">>, <<"4">> >>)

FooterLine ==
    JoinWords(<< EMISION, <<"0", "2", "/", "2", "6">>, <<"D", "e", "l">>,
                 <<"2", "6">>, DE, <<"e", "n", "e", "r", "o">>, Y2026,
                 <<"a", "l">>, <<"2", "2">>, DE,
                 <<"f", "e", "b", "r", "e", "r", "o">>, Y2026 >>)

\* a flight line whose first two bytes pass the zlib header check
Flight80Line == JoinWords(<< <<"8", "0">>, MEX, <<"1", "0">>, JFK, <<"3">>, <<"4">> >>)

\* texts without newline, quote or backslash
OneLineTexts == {<<>>, FlightLine, Flight80Line, <<"P", "a", "g", " ", "1">>}

PostTexts ==
    OneLineTexts \cup
    { <<" ">> \o HeaderLine \o <<"\n">> \o FlightLine \o <<"\n">> \o FooterLine,
      <<"1", "2", "\n">> \o FooterLine }

\* the characters of the JSON object {"text": "<txt>"}
JsonObjectSource(txt) ==
    <<"{", "\"", "t", "e", "x", "t", "\"", ":", " ", "\"">> \o txt \o <<"\"", "}">>

JsonPayloads ==
    { [kind |-> "json", text |-> JsonObjectSource(t),
       value |-> [type |-> "dict", has_text |-> TRUE, text |-> str(t)]] :
          t \in OneLineTexts }
    \cup
    { [kind |-> "json", text |-> <<"{", "}">>,
       value |-> [type |-> "dict", has_text |-> FALSE]],
      [kind |-> "json", text |-> <<"{", "\"", "t", "e", "x", "t", "\"", ":", "5", "}">>,
       value |-> [type |-> "dict", has_text |-> TRUE,
                  text |-> [type |-> "int", value |-> 5]]],
      [kind |-> "json", text |-> <<"[", "]">>, value |-> [type |-> "list"]],
      [kind |-> "json", text |-> <<"{", "\"", "t", "e", "x", "t">>,
       value |-> None] }

TableRow ==
    << <<"A">>, <<"1", "2">>, MEX, <<"1", "0", "3", "0">>, JFK,
       <<"1", "5", "3", "0">>, <<"1">>, <<"2">>, <<"3">>, <<"4">>, <<"5">>,
       <<"6">>, <<"7">>, DATE1, DATE2 >>

TitleRow == << <<"V", "L", "O">>, <<"O", "R", "G">> >>

PdfPayloads ==
    { [kind |-> "pdf", rows |-> r, intact |-> i, text |-> t] :
          r \in {<<>>, <<TitleRow, TableRow>>, <<TableRow, <<>>, TableRow>>},
          i \in BOOLEAN, t \in PostTexts }

ZipPayloads ==
    { [kind |-> "zip", intact |-> i, text |-> t] :
          i \in BOOLEAN, t \in PostTexts }

TextPayloads == { [kind |-> "text", text |-> t] : t \in PostTexts }

Payloads == JsonPayloads \cup PdfPayloads \cup ZipPayloads \cup TextPayloads

ContentTypes == JsonTypes \cup DeflateTypes \cup {"text/plain", ""}

InitPost == pc = "compose" /\ InitCommon

\* the client chooses what to send
PutPayload ==
    /\ pc = "compose" /\ compose.phase = "start"
    /\ \E p \in Payloads :
        request' = [body |-> [format |-> "plain", corrupt |-> FALSE,
                              payload |-> p]]
    /\ compose' = [phase |-> "payload", n |-> 0]
    /\ UNCHANGED <<pc, lineVars, result, textVars, row, metadata, responses>>

\* the client packs the body, or the packed body is damaged on the way
Compress ==
    /\ pc = "compose" /\ compose.phase = "payload"
    /\ \E f \in {"gzip", "zlib", "deflate"}, c \in BOOLEAN :
        request' = [body |-> [format |-> f, corrupt |-> c,
                              payload |-> request.body.payload]]
    /\ compose' = [phase |-> "packed", n |-> 0]
    /\ UNCHANGED <<pc, lineVars, result, textVars, row, metadata, responses>>

\* the client writes the headers; a raw deflate body is sent with its type
PutHeaders ==
    /\ pc = "compose" /\ compose.phase \in {"payload", "packed"}
    /\ \E ok \in BOOLEAN, ct \in ContentTypes :
        /\ request.body.format = "deflate" => ct \in DeflateTypes
        /\ request' = [body |-> request.body, content_length_ok |-> ok,
                       content_type |-> ct]
    /\ compose' = [phase |-> "headers", n |-> 0]
    /\ UNCHANGED <<pc, lineVars, result, textVars, row, metadata, responses>>

\* do_POST
DoPost ==
    /\ pc = "compose" /\ compose.phase = "headers"
    /\ responses' = responses \o do_POST(request)
    /\ pc' = "returned"
    /\ UNCHANGED <<compose, lineVars, result, textVars, row, metadata, request>>

NextPost == PutPayload \/ Compress \/ PutHeaders \/ DoPost

SpecPost == InitPost /\ [][NextPost]_vars

(***************************************************************************)
(* Properties of do_POST                                                   *)
(***************************************************************************)
PostDone == pc = "returned" /\ request # None

Packed(req) == req.body.format \in {"gzip", "zlib", "deflate"}

\* requests of which a step raises: the length header is no number, the
\* packed body is damaged, the PDF or ZIP file is damaged, or the body sent
\* as JSON is not JSON or holds no object with a text string
ARaisingRequest(req) ==
    \/ ~req.content_length_ok
    \/ Packed(req) /\ req.body.corrupt
    \/ req.body.payload.kind \in {"pdf", "zip"} /\ ~req.body.payload.intact
    \/ /\ ~Packed(req) /\ req.content_type \in JsonTypes
       /\ req.body.payload.kind = "json"
       /\ \/ req.body.payload.value = None
          \/ req.body.payload.value.type # "dict"
          \/ /\ req.body.payload.value.has_text
             /\ req.body.payload.value.text.type # "str"

\* requests whose text is extracted and parsed: an intact body with a
\* readable length, packed by gzip or zlib, holding a text or a ZIP of texts
ACompletingRequest(req) ==
    /\ req.content_length_ok
    /\ req.body.format \in {"gzip", "zlib"} /\ ~req.body.corrupt
    /\ \/ req.body.payload.kind = "text"
       \/ req.body.payload.kind = "zip" /\ req.body.payload.intact

NoParseableLine(txt) ==
    \A k \in 1..Len(split_lines(txt)) : parse_text(split_lines(txt)[k]) = <<>>

\* C9: every POST request ends in exactly one structured result: with
\* success=true the total is the length of flights, and a text without
\* parseable line gives total=0, flights=[], success=true; when a step
\* raises the result has success=false, an error description, total=0 and
\* an empty flights list.
C9_ExactlyOneStructuredResult ==
    PostDone =>
        /\ Len(responses) = 1
        /\ responses[1].success \in BOOLEAN
        /\ responses[1].success =>
               /\ responses[1].status = 200
               /\ responses[1].total = Len(responses[1].flights)
        /\ ~responses[1].success =>
               /\ responses[1].status = 500
               /\ responses[1].error # ""
               /\ responses[1].total = 0
               /\ responses[1].flights = <<>>
        /\ ARaisingRequest(request) => ~responses[1].success
        /\ ACompletingRequest(request) => responses[1].success
        /\ ACompletingRequest(request) /\ NoParseableLine(request.body.payload.text)
               => responses[1].total = 0 /\ responses[1].flights = <<>>

\* a request whose text was extracted and then made extract_metadata raise
C9_Witness ==
    /\ PostDone
    /\ request.content_length_ok /\ ~Packed(request)
    /\ request.content_type \in JsonTypes
    /\ request.body.payload.kind = "json"
    /\ request.body.payload.value # None
    /\ request.body.payload.value.type = "dict"
    /\ request.body.payload.value.has_text
    /\ request.body.payload.value.text.type = "int"
    /\ responses = <<failure_response("expected string or bytes-like object")>>

\* a document without parseable line is answered with success and no flight
C9_ZeroLinesReached ==
    /\ PostDone
    /\ ACompletingRequest(request)
    /\ request.body.payload.text = <<"P", "a", "g", " ", "1">>
    /\ responses[1].success /\ responses[1].total = 0
    /\ responses[1].flights = <<>>

\* a document with a flight line and a table of flights are answered
C9_FlightsReached ==
    /\ PostDone
    /\ responses[1].success /\ responses[1].total = 2
    /\ responses[1].source = "gzip+pdf-table"

(***************************************************************************)
(* The token classifiers on their own                                      *)
(***************************************************************************)
TokenChars == {"0", "1", "4", "5", "8", "9", "A", " ", "\n"}

MaxTokenLen == 3

InitToken == pc = "compose" /\ InitCommon

\* the caller writes one more character of the token (kept in line)
PutChar ==
    /\ pc = "compose" /\ Len(line) < MaxTokenLen
    /\ \E c \in TokenChars : line' = Append(line, c)
    /\ compose' = [phase |-> "chars", n |-> Len(line) + 1]
    /\ UNCHANGED <<pc, tokens, boundary, segments, result, textVars, row,
                   metadata, postVars>>

\* is_frequency(token), is_time(token), is_airport(token)
Classify ==
    /\ pc = "compose"
    /\ result' = [frequency |-> is_frequency(line), time |-> is_time(line),
                  airport |-> is_airport(line)]
    /\ pc' = "returned"
    /\ UNCHANGED <<compose, lineVars, textVars, row, metadata, postVars>>

NextToken == PutChar \/ Classify

SpecToken == InitToken /\ [][NextToken]_vars

\* the frequency codes as the specification lists them
FrequencyCodes ==
    { <<"0">>, <<"1">>, <<"2">>, <<"3">>, <<"4">>, <<"5">>, <<"6">>, <<"7">>,
      <<"8">>, <<"1", "0">>, <<"1", "1">>, <<"1", "2">>, <<"1", "3">>,
      <<"1", "4">> }

\* C12: is_frequency(token) is true if and only if the token is a single
\* digit 0-8 or one of "10", "11", "12", "13", "14".
C12_FrequencyExactly ==
    pc = "returned" => (result.frequency <=> line \in FrequencyCodes)

\* the same for the tokens str.split() gives, which hold no whitespace
C12_FrequencyOfSplitTokens ==
    pc = "returned" /\ (\A k \in 1..Len(line) : line[k] \notin Whitespace)
        => (result.frequency <=> line \in FrequencyCodes)

(***************************************************************************)
(* Properties of _find_section_boundary (checked under SpecLine)           *)
(***************************************************************************)
\* the index (0-based) parse_line starts the scan at: after the status, if
\* any, and the flight number
ScanStart == IF tokens[1] \in status_tokens THEN 2 ELSE 1

TokenAt(i) == tokens[i + 1]

IsAirportToken(tok) == is_airport(tok) \/ is_time_airport(tok)

\* the airports among the tokens ScanStart..i
AirportsSeen(i) ==
    Cardinality({j \in ScanStart..i : IsAirportToken(TokenAt(j))})

FrequencyOrDate(tok) == is_frequency(tok) \/ is_date(tok)

\* the number of frequency-or-date tokens that follow token i contiguously
FollowedBy(i) ==
    LET lens == {n \in 0..(Len(tokens) - 1 - i) :
                    \A j \in (i + 1)..(i + n) : FrequencyOrDate(TokenAt(j))}
    IN  CHOOSE n \in lens : \A m \in lens : m <= n

\* the frequency codes among them
FrequenciesAfter(i) ==
    Cardinality({j \in (i + 1)..(i + FollowedBy(i)) : is_frequency(TokenAt(j))})

BoundaryIsFrequency == boundary < Len(tokens) /\ is_frequency(TokenAt(boundary))

\* token i is a frequency code met after two airports
Candidate(i) == is_frequency(TokenAt(i)) /\ AirportsSeen(i) >= 2

\* the boundary rule with a lookahead of n frequency-or-date tokens
LookaheadRule(n) ==
    Accepted =>
        /\ BoundaryIsFrequency =>
               Candidate(boundary) /\ FollowedBy(boundary) >= n
        /\ \A i \in ScanStart..(Len(tokens) - 1) :
               Candidate(i) /\ FollowedBy(i) >= n => boundary <= i

\* C13: a frequency code is the boundary only after 2 airports have been
\* seen, and the boundary is the first frequency code after them that is
\* followed contiguously by at least N further frequency-or-date tokens, for
\* one fixed N in {1, 2}.
C13_LookaheadOneOrTwo == LookaheadRule(1) \/ LookaheadRule(2)

\* C13 as the code has it: the first frequency code after 2 airports that is
\* followed, within its contiguous run of frequency-or-date tokens, by at
\* least one more frequency code; failing that the first date after 2
\* airports, or the end of the tokens.
C13_OneMoreFrequencyInRun ==
    Accepted =>
        /\ BoundaryIsFrequency =>
               Candidate(boundary) /\ FrequenciesAfter(boundary) >= 1
        /\ \A i \in ScanStart..(Len(tokens) - 1) :
               Candidate(i) /\ FrequenciesAfter(i) >= 1 => boundary <= i
        /\ \A i \in ScanStart..(Len(tokens) - 1) :
               is_date(TokenAt(i)) /\ AirportsSeen(i) >= 2 => boundary <= i
        /\ boundary < Len(tokens) =>
               BoundaryIsFrequency
               \/ (is_date(TokenAt(boundary)) /\ AirportsSeen(boundary) >= 2)

\* a lone frequency code before the dates is passed over
C13_Witness ==
    /\ Accepted
    /\ \E i \in ScanStart..(Len(tokens) - 1) :
        /\ Candidate(i) /\ FollowedBy(i) = 2 /\ FrequenciesAfter(i) = 0
        /\ boundary = i + 1 /\ is_date(TokenAt(boundary))

\* a frequency code followed by one more code and then an airport is taken
C13_CommittedReached ==
    /\ Accepted /\ BoundaryIsFrequency
    /\ FollowedBy(boundary) = 1 /\ FrequenciesAfter(boundary) = 1
    /\ boundary + 2 < Len(tokens)

(***************************************************************************)
(* ItineraryParser._assign_frequencies_by_position, which no code calls    *)
(***************************************************************************)
\* line[pos] for a 0-based pos, and ' ' outside the line
char_at(ln, pos) == IF pos >= 0 /\ pos < Len(ln) THEN ln[pos + 1] ELSE " "

\* the code read at pos, or <<>>: a two-digit code 10..14 that starts at
\* pos, or a digit with no digit next to it
code_at(ln, pos) ==
    IF pos < 0 \/ pos >= Len(ln) \/ ln[pos + 1] \notin Digit THEN <<>>
    ELSE LET char == ln[pos + 1]
             prev_char == char_at(ln, pos - 1)
             next_char == char_at(ln, pos + 1)
         IN  IF char = "1" /\ next_char \in Digit /\ prev_char \notin Digit
             THEN IF <<char, next_char>> \in two_digit_codes
                  THEN <<char, next_char>> ELSE <<>>
             ELSE IF prev_char \notin Digit /\ next_char \notin Digit
             THEN <<char>> ELSE <<>>

\* for offset in [0, -1, 1], from the k-th offset on: the first code read
column_offsets == <<0, -1, 1>>

RECURSIVE column_code(_, _, _)
column_code(ln, day_pos, k) ==
    IF k > Len(column_offsets) THEN <<>>
    ELSE IF code_at(ln, day_pos + column_offsets[k]) # <<>>
    THEN code_at(ln, day_pos + column_offsets[k])
    ELSE column_code(ln, day_pos, k + 1)

\* the margin allowed between the codes found by position and by token
COUNT_MARGIN == 1

\* the dict the method returns, as a function on the weekday fields it sets
assign_frequencies_by_position(ln, fields, expected_frequencies, positions) ==
    IF positions = NoPositions THEN <<>>
    ELSE
    LET found == {k \in 1..Len(positions) : column_code(ln, positions[k], 1) # <<>>}
        diff == Cardinality(found) - Len(expected_frequencies)
        start_idx == DAY_COUNT - Len(expected_frequencies)
    IN  IF diff <= COUNT_MARGIN /\ -diff <= COUNT_MARGIN
        THEN [d \in {fields[k] : k \in found} |->
                 column_code(ln, positions[CHOOSE k \in found : fields[k] = d], 1)]
        ELSE [d \in {fields[start_idx + i] :
                        i \in {j \in 1..Len(expected_frequencies) :
                                  start_idx + j >= 1}} |->
                 expected_frequencies[
                     (CHOOSE k \in 1..DAY_COUNT : fields[k] = d) - start_idx]]

(***************************************************************************)
(* Day assignment within a document (checked under SpecText)               *)
(***************************************************************************)
\* the frequency codes parse_line finds among the day tokens of a line
TokenFrequencies(ln) ==
    LET loc == parse_line_locals(ln)
    IN  select_frequencies(day_tokens_of(
            Slice(loc.tokens, loc.boundary, Len(loc.tokens))))

\* the weekday slots the position-based strategy gives a line
SlotsByPosition(ln) ==
    LET by_pos == assign_frequencies_by_position(
                      ln, day_fields, TokenFrequencies(ln), day_column_positions)
    IN  [d \in Range(day_fields) |->
            IF d \in DOMAIN by_pos THEN by_pos[d] ELSE <<>>]

SlotsOf(rec) == [d \in Range(day_fields) |-> rec[d]]

Calibrated == pc = "returned" /\ day_column_positions # NoPositions

ParsedLines == {k \in 1..Len(split_lines(text)) :
                   line_flights(split_lines(text)[k]) # <<>>}

\* C14: when calibration has set the column positions, the weekday slots of
\* each parsed line are those of the position-based strategy (a code goes
\* to the weekday at whose calibrated offset, give or take 1, it is
\* printed), and the right-aligned token-count result is used only when the
\* two counts differ by more than 1.
C14_PositionStrategyPreferred ==
    Calibrated =>
        \A k \in ParsedLines :
            SlotsOf(line_flights(split_lines(text)[k])[1])
                = SlotsByPosition(split_lines(text)[k])

\* what the code does: the weekday slots of every parsed line are the
\* right-aligned token-count result, calibrated or not
C14_TokenCountAlways ==
    pc = "returned" =>
        \A k \in ParsedLines :
            LET codes == TokenFrequencies(split_lines(text)[k])
                rec == line_flights(split_lines(text)[k])[1]
            IN  \A i \in 1..DAY_COUNT :
                    rec[day_fields[i]] =
                        IF i > DAY_COUNT - Len(codes)
                        THEN codes[i - (DAY_COUNT - Len(codes))] ELSE <<>>

(***************************************************************************)
(* clean_spaced_numbers on its own                                         *)
(***************************************************************************)
CleanChars == {"0", "1", "2", "3", "6", " ", "x"}

MaxCleanLen == 5

InitClean == pc = "compose" /\ InitCommon

\* the extractor writes one more character of the text
PutCleanChar ==
    /\ pc = "compose" /\ Len(text) < MaxCleanLen
    /\ \E c \in CleanChars : text' = Append(text, c)
    /\ compose' = [phase |-> "chars", n |-> Len(text) + 1]
    /\ UNCHANGED <<pc, lineVars, result, flights, day_column_positions,
                   earlier_positions, row, metadata, postVars>>

\* result = clean_spaced_numbers(text)
CleanSpacedNumbers ==
    /\ pc = "compose"
    /\ result' = clean_spaced_numbers(text)
    /\ pc' = "cleaned"
    /\ UNCHANGED <<compose, lineVars, textVars, row, metadata, postVars>>

\* the first output is kept in line, and
\* result = clean_spaced_numbers(clean_spaced_numbers(text))
CleanAgain ==
    /\ pc = "cleaned"
    /\ line' = result
    /\ result' = clean_spaced_numbers(result)
    /\ pc' = "recleaned"
    /\ UNCHANGED <<compose, tokens, boundary, segments, textVars, row,
                   metadata, postVars>>

NextClean == PutCleanChar \/ CleanSpacedNumbers \/ CleanAgain

SpecClean == InitClean /\ [][NextClean]_vars

\* a whitespace run of s that lies between two digits
SpacedDigits(s) ==
    \E i, j \in 1..Len(s) :
        /\ i + 1 < j /\ s[i] \in Digit /\ s[j] \in Digit
        /\ \A k \in (i + 1)..(j - 1) : s[k] \in Whitespace

\* the characters of s that are not whitespace, in order
RECURSIVE NonBlank(_)
NonBlank(s) ==
    IF s = <<>> THEN <<>>
    ELSE IF s[1] \in Whitespace THEN NonBlank(Tail(s))
    ELSE <<s[1]>> \o NonBlank(Tail(s))

\* s without the whitespace runs that lie between two digits
RECURSIVE Joined(_, _)
Joined(s, i) ==
    IF i > Len(s) THEN <<>>
    ELSE IF /\ s[i] \in Whitespace
            /\ \E a \in 1..(i - 1), b \in (i + 1)..Len(s) :
                  /\ s[a] \in Digit /\ s[b] \in Digit
                  /\ \A k \in (a + 1)..(b - 1) : s[k] \in Whitespace
    THEN Joined(s, i + 1)
    ELSE <<s[i]>> \o Joined(s, i + 1)

Cleaned == pc = "cleaned"

\* C17: the output of clean_spaced_numbers has no whitespace run between two
\* digits, every other character is kept in order ("202 6" gives "2026",
\* "1 2 3" gives "123"), and cleaning the output again changes nothing.
C17_CleanedAndIdempotent ==
    /\ pc \in {"cleaned", "recleaned"} =>
          (IF pc = "cleaned" THEN result ELSE line) = Joined(text, 1)
    /\ pc = "recleaned" => result = line

\* a digit of the text with whitespace and then a digit on both sides
SharedDigit(s) ==
    \E i \in 2..(Len(s) - 1) :
        /\ s[i] \in Digit
        /\ s[i - 1] \in Whitespace /\ s[i + 1] \in Whitespace
        /\ SpacedDigits(SubSeq(s, 1, i)) /\ SpacedDigits(SubSeq(s, i, Len(s)))

\* what the code does: the claim holds of the texts in which no digit stands
\* between two whitespace runs that each have a digit on their other side
C17_CleanWithoutSharedDigit ==
    ~SharedDigit(text) => C17_CleanedAndIdempotent

\* in every text only whitespace is removed
C17_OnlyWhitespaceRemoved ==
    pc = "cleaned" => NonBlank(result) = NonBlank(text) /\ Len(result) <= Len(text)

C17_SpacedYear == Cleaned /\ text = <<"2", "0", "2", " ", "6">>

C17_SharedDigitCleaned == Cleaned /\ text = <<"1", " ", "2", " ", "3">>

====
